---- MODULE Spec2Model ----
(***************************************************************************)
(* State-machine model of the YubiKey PIV engine of safe-yubikey           *)
(* (src/safe-yubikey-electron/src/main/yubikey-pcsc.ts) and of the IPC     *)
(* handlers that call it (main process entry point).                       *)
(*                                                                         *)
(* One action is one macrotask of the Node event loop: an IPC invocation,  *)
(* a native PC/SC callback, a timer or a child-process callback, together  *)
(* with the whole chain of promise continuations (microtasks) it triggers. *)
(* Offsets into byte buffers are 0-based as in the source.                 *)
(***************************************************************************)
EXTENDS Integers, Sequences, FiniteSets, TLC

\* ------------------------------------------------------------------ bounds
\* IPC invocations that may be in flight (not yet answered) at once.
MaxCalls == 2
\* PC/SC contexts the manager creates in one run (connection attempts).
MaxConn == 2
\* 61 xx continuation rounds the card uses for one logical response.
MaxCont == 1
\* The same where the continuation itself is examined (SpecTransmit).
MaxRounds == 3

\* Calls the renderer may have in flight at once.
MaxFlying == 2
\* Transactions the user may enter in the wizard.
MaxTx == 2

\* Reader objects the PC/SC layer hands out in one run.
MaxReaders == MaxConn

\* ------------------------------------------------------------ byte buffers
\* JavaScript `undefined`, the value of an out-of-range buffer read.
Undef == 0 - 1
\* parseLength / parseLengthBytes raising 'Unsupported length encoding'.
Throw == 0 - 2

Min(a, b) == IF a < b THEN a ELSE b
Max(a, b) == IF a > b THEN a ELSE b

\* data[o] for a 0-based offset o.
At(data, o) == IF o >= 0 /\ o < Len(data) THEN data[o + 1] ELSE Undef

\* data.slice(a, b) for 0 <= a and 0 <= b.
Slice(data, a, b) == SubSeq(data, a + 1, Min(b, Len(data)))

\* data.slice(-2): the last two bytes (fewer when the buffer is shorter).
SliceLast2(data) == SubSeq(data, Max(1, Len(data) - 1), Len(data))

\* data.slice(0, -2): everything but the last two bytes.
SliceDrop2(data) == SubSeq(data, 1, Len(data) - 2)

\* A buffer of n bytes b.
Fill(n, b) == [i \in 1..n |-> b]

\* ------------------------------------------------------------ PIV constants
PIV_AID == <<160, 0, 0, 3, 8>>
PIV_SLOT_AUTHENTICATION == 154
PIV_ALGORITHM_ECCP256 == 17
SCARD_PROTOCOL_T1 == 2
AES192_ALG == 10

\* ------------------------------------------------------- ASN.1 length bytes
\* parseLength: the value of the length field at offset, Undef when the
\* 0x81 form names a byte that is not there, Throw for any other first byte.
parseLength(data, offset) ==
  LET firstByte == At(data, offset) IN
  IF firstByte >= 0 /\ firstByte <= 127 THEN firstByte
  ELSE IF firstByte = 129 THEN At(data, offset + 1)
  ELSE IF firstByte = 130
       THEN (IF At(data, offset + 1) = Undef THEN 0 ELSE At(data, offset + 1) * 256)
            + (IF At(data, offset + 2) = Undef THEN 0 ELSE At(data, offset + 2))
  ELSE Throw

\* parseLengthBytes: the number of bytes the length field occupies.
parseLengthBytes(data, offset) ==
  LET firstByte == At(data, offset) IN
  IF firstByte >= 0 /\ firstByte <= 127 THEN 1
  ELSE IF firstByte = 129 THEN 2
  ELSE IF firstByte = 130 THEN 3
  ELSE Throw

\* An optional buffer: a Buffer, or null.
Null == [ok |-> FALSE, val |-> <<>>]
Some(v) == [ok |-> TRUE, val |-> v]

\* ------------------------------------------------------------- hex strings
\* A hex string is the sequence of its digits' values (0..15).
\* buf.toString('hex')
ToHex(buf) ==
  [i \in 1..(2 * Len(buf)) |->
     IF i % 2 = 1 THEN buf[(i + 1) \div 2] \div 16 ELSE buf[i \div 2] % 16]

\* str.padStart(64, '0')
PadStart64(hex) == IF Len(hex) >= 64 THEN hex ELSE Fill(64 - Len(hex), 0) \o hex

\* --------------------------------------------------------- parseTlvValue
\* The while loop of parseTlvValue, from offset on.
RECURSIVE tlvScan(_, _, _)
tlvScan(data, tag, offset) ==
  IF ~(offset < Len(data) - 1) THEN Null
  ELSE LET currentTag == At(data, offset)
           len == parseLength(data, offset + 1)
           lb == parseLengthBytes(data, offset + 1)
           o2 == offset + 1 + lb
       IN IF lb = Throw THEN Null
          ELSE IF currentTag = tag
               THEN (IF len = Undef THEN Some(<<>>) ELSE Some(Slice(data, o2, o2 + len)))
          ELSE IF len = Undef THEN Null
          ELSE tlvScan(data, tag, o2 + len)

\* parseTlvValue(data, tag): the value of the first element with this tag,
\* after an optional 7C wrapper; null when absent or on a parse exception.
parseTlvValue(data, tag) ==
  IF At(data, 0) = 124
  THEN (IF parseLengthBytes(data, 1) = Throw THEN Null
        ELSE tlvScan(data, tag, 1 + parseLengthBytes(data, 1)))
  ELSE tlvScan(data, tag, 0)

\* ------------------------------------------------- parsePublicKeyResponse
\* PublicKeyResult: publicKeyHex, x and y as hex strings.
PublicKeyResult(pubKey, x, y) ==
  [publicKeyHex |-> ToHex(pubKey), x |-> ToHex(x), y |-> ToHex(y)]

NoKeyResult == [ok |-> FALSE, key |-> PublicKeyResult(<<>>, <<>>, <<>>)]
KeyResult(k) == [ok |-> TRUE, key |-> k]

parsePublicKeyResponse(response) ==
  IF At(response, 0) # 127 \/ At(response, 1) # 73 THEN NoKeyResult
  ELSE IF parseLengthBytes(response, 2) = Throw THEN NoKeyResult
  ELSE LET offset == 2 + parseLengthBytes(response, 2) IN
    IF At(response, offset) # 134 THEN NoKeyResult
    ELSE LET lenInfo == parseLengthBytes(response, offset + 1)
             pubKeyLen == parseLength(response, offset + 1)
             o2 == offset + 1 + lenInfo
             pubKey == IF pubKeyLen = Undef THEN <<>>
                       ELSE Slice(response, o2, o2 + pubKeyLen)
         IN IF lenInfo = Throw THEN NoKeyResult
            ELSE IF Len(pubKey) # 65 \/ At(pubKey, 0) # 4 THEN NoKeyResult
            ELSE KeyResult(PublicKeyResult(pubKey, Slice(pubKey, 1, 33),
                                           Slice(pubKey, 33, 65)))

\* -------------------------------------------------- parsePublicKeyFromCert
ecPubKeyOid == <<6, 7, 42, 134, 72, 206, 61, 2, 1>>

SetMin(S) == CHOOSE m \in S : \A k \in S : m <= k

\* parsePublicKeyFallback: the first 03 42 00 04 or 03 81 42 00 04 pattern.
fallbackShort(data, i) ==
  At(data, i) = 3 /\ At(data, i + 1) = 66 /\ At(data, i + 2) = 0 /\ At(data, i + 3) = 4

fallbackLong(data, i) ==
  /\ At(data, i) = 3 /\ At(data, i + 1) = 129 /\ At(data, i + 2) = 66
  /\ At(data, i + 3) = 0 /\ At(data, i + 4) = 4

parsePublicKeyFallback(data) ==
  LET hits == {i \in 0..(Len(data) - 68) : fallbackShort(data, i) \/ fallbackLong(data, i)}
  IN IF hits = {} THEN NoKeyResult
     ELSE LET i == SetMin(hits) IN
          IF fallbackShort(data, i)
          THEN KeyResult(PublicKeyResult(Slice(data, i + 3, i + 68),
                                         Slice(data, i + 4, i + 36),
                                         Slice(data, i + 36, i + 68)))
          ELSE KeyResult(PublicKeyResult(Slice(data, i + 4, i + 69),
                                         Slice(data, i + 5, i + 37),
                                         Slice(data, i + 37, i + 69)))

\* The BIT STRING test of the primary strategy at index i: the offset of the
\* content (contentStart) when the element is a 66-byte BIT STRING holding
\* 00 04 ..., and Undef otherwise.
bitStringAt(data, i) ==
  LET first == At(data, i + 1)
      bitStringLen == IF first = 129 THEN At(data, i + 2)
                      ELSE IF first = 130
                           THEN (IF At(data, i + 2) = Undef THEN 0 ELSE At(data, i + 2) * 256)
                                + (IF At(data, i + 3) = Undef THEN 0 ELSE At(data, i + 3))
                      ELSE first
      lenOffset == IF first = 129 THEN i + 2 ELSE IF first = 130 THEN i + 3 ELSE i + 1
      contentStart == lenOffset + 1
  IN IF /\ At(data, i) = 3
        /\ bitStringLen = 66
        /\ At(data, contentStart) = 0
        /\ At(data, contentStart + 1) = 4
     THEN contentStart
     ELSE Undef

\* The primary strategy with its BIT STRING search ending one index early:
\* a variant the round-trip property must tell apart.
primaryScanShortRange(data) ==
  LET oidHits == {i \in 0..(Len(data) - Len(ecPubKeyOid) - 1) :
                    Slice(data, i, i + Len(ecPubKeyOid)) = ecPubKeyOid}
  IN IF oidHits = {} THEN NoKeyResult
     ELSE LET ecOidIndex == SetMin(oidHits)
              hits == {i \in (ecOidIndex + Len(ecPubKeyOid))..(Len(data) - 69) :
                         bitStringAt(data, i) # Undef}
          IN IF hits = {} THEN NoKeyResult
             ELSE LET contentStart == bitStringAt(data, SetMin(hits)) IN
                  KeyResult(PublicKeyResult(
                    Slice(data, contentStart + 1, contentStart + 66),
                    Slice(data, contentStart + 2, contentStart + 34),
                    Slice(data, contentStart + 34, contentStart + 66)))

\* The primary strategy of parsePublicKeyFromCert: the first EC public key
\* OID, then the first 66-byte BIT STRING after it; no key when either is
\* not found.
primaryScan(data) ==
  LET oidHits == {i \in 0..(Len(data) - Len(ecPubKeyOid) - 1) :
                    Slice(data, i, i + Len(ecPubKeyOid)) = ecPubKeyOid}
  IN IF oidHits = {} THEN NoKeyResult
     ELSE LET ecOidIndex == SetMin(oidHits)
              hits == {i \in (ecOidIndex + Len(ecPubKeyOid))..(Len(data) - 68) :
                         bitStringAt(data, i) # Undef}
          IN IF hits = {} THEN NoKeyResult
             ELSE LET contentStart == bitStringAt(data, SetMin(hits)) IN
                  KeyResult(PublicKeyResult(
                    Slice(data, contentStart + 1, contentStart + 66),
                    Slice(data, contentStart + 2, contentStart + 34),
                    Slice(data, contentStart + 34, contentStart + 66)))

parsePublicKeyFromCert(data) ==
  IF primaryScan(data).ok THEN primaryScan(data) ELSE parsePublicKeyFallback(data)

\* ------------------------------------------------ 256-bit unsigned integers
\* A 256-bit value is its 32 big-endian bytes (BigInt('0x' + buf.toString('hex'))).
\* P-256 curve order n.
CurveOrder ==
  <<255, 255, 255, 255, 0, 0, 0, 0, 255, 255, 255, 255, 255, 255, 255, 255,
    188, 230, 250, 173, 167, 23, 158, 132, 243, 185, 202, 194, 252, 99, 37, 81>>

\* a > b for two buffers of the same length.
BigGt(a, b) ==
  \E i \in 1..Len(a) : a[i] > b[i] /\ \A j \in 1..(i - 1) : a[j] = b[j]

\* n / 2n: the value shifted right by one bit.
BigHalf(a) ==
  [i \in 1..Len(a) |-> (a[i] \div 2) + (IF i > 1 /\ a[i - 1] % 2 = 1 THEN 128 ELSE 0)]

\* The borrow taken from byte i by the bytes to its right in a - b.
RECURSIVE bigBorrow(_, _, _)
bigBorrow(a, b, i) ==
  IF i >= Len(a) THEN 0
  ELSE IF a[i + 1] - b[i + 1] - bigBorrow(a, b, i + 1) < 0 THEN 1 ELSE 0

\* a - b for a >= b, as 32 bytes.
BigSub(a, b) ==
  [i \in 1..Len(a) |-> (a[i] - b[i] - bigBorrow(a, b, i) + 256) % 256]

\* ------------------------------------------------------ signature parsing
\* normalizeTo32Bytes: drop the DER sign byte of a 33-byte value, left-pad a
\* shorter value with zeros, keep the first 32 bytes of a longer one.
normalizeTo32Bytes(buf) ==
  LET b1 == IF Len(buf) = 33 /\ buf[1] = 0 THEN Slice(buf, 1, Len(buf)) ELSE buf IN
  IF Len(b1) < 32 THEN Fill(32 - Len(b1), 0) \o b1 ELSE Slice(b1, 0, 32)

\* The low-S step taken from s >= n/2 on: a variant the low-S property must
\* tell apart.
lowSInclusive(s) ==
  IF BigGt(s, BigHalf(CurveOrder)) \/ s = BigHalf(CurveOrder)
  THEN (IF BigGt(s, CurveOrder) THEN <<>> ELSE BigSub(CurveOrder, s))
  ELSE s

\* The low-S step of parseDerSignature on a 32-byte s. A value above the
\* order makes n - s negative: its string holds a '-', at which the hex
\* decoder stops, leaving zero bytes only; the empty buffer stands for them
\* (both pad to the same 64-digit string).
lowS(s) ==
  IF BigGt(s, BigHalf(CurveOrder))
  THEN (IF BigGt(s, CurveOrder) THEN <<>> ELSE BigSub(CurveOrder, s))
  ELSE s

NoSig == [ok |-> FALSE, r |-> <<>>, s |-> <<>>]

\* parseDerSignature: r and s as buffers; ok is FALSE where the source throws.
parseDerSignature(der) ==
  IF At(der, 0) # 48 THEN NoSig
  ELSE IF parseLengthBytes(der, 1) = Throw THEN NoSig
  ELSE LET o1 == 1 + parseLengthBytes(der, 1) IN
    IF At(der, o1) # 2 THEN NoSig
    ELSE LET rLen == parseLength(der, o1 + 1)
             rLenBytes == parseLengthBytes(der, o1 + 1)
             o2 == o1 + 1 + rLenBytes
         IN IF rLenBytes = Throw \/ rLen = Undef THEN NoSig
            ELSE LET rRaw == Slice(der, o2, o2 + rLen)
                     o3 == o2 + rLen
                 IN IF At(der, o3) # 2 THEN NoSig
                    ELSE LET sLen == parseLength(der, o3 + 1)
                             sLenBytes == parseLengthBytes(der, o3 + 1)
                             o4 == o3 + 1 + sLenBytes
                             sRaw == IF sLen = Undef THEN <<>>
                                     ELSE Slice(der, o4, o4 + sLen)
                         IN IF sLenBytes = Throw THEN NoSig
                            ELSE [ok |-> TRUE,
                                  r |-> normalizeTo32Bytes(rRaw),
                                  s |-> lowS(normalizeTo32Bytes(sRaw))]

\* SignatureResult: signatureDer, r and s as hex strings.
NoSignature == [ok |-> FALSE, signatureDer |-> <<>>, r |-> <<>>, s |-> <<>>]

parseSignatureResponse(response) ==
  IF At(response, 0) # 124 THEN NoSignature
  ELSE IF parseLengthBytes(response, 1) = Throw THEN NoSignature
  ELSE LET offset == 1 + parseLengthBytes(response, 1) IN
    IF At(response, offset) # 130 THEN NoSignature
    ELSE LET lenInfo == parseLengthBytes(response, offset + 1)
             sigLen == parseLength(response, offset + 1)
             o2 == offset + 1 + lenInfo
             sigDer == IF sigLen = Undef THEN <<>> ELSE Slice(response, o2, o2 + sigLen)
             rs == parseDerSignature(sigDer)
         IN IF lenInfo = Throw \/ ~rs.ok THEN NoSignature
            ELSE [ok |-> TRUE,
                  signatureDer |-> ToHex(sigDer),
                  r |-> PadStart64(ToHex(rs.r)),
                  s |-> PadStart64(ToHex(rs.s))]

\* ------------------------------------------------------------- hex decoding
\* A string is the sequence of its character codes.
\* The value of a hex digit, Undef for any other character.
hexDigit(c) ==
  IF c >= 48 /\ c <= 57 THEN c - 48
  ELSE IF c >= 97 /\ c <= 102 THEN c - 87
  ELSE IF c >= 65 /\ c <= 70 THEN c - 55
  ELSE Undef

\* The character of a hex digit value (lower case).
hexChar(d) == IF d < 10 THEN 48 + d ELSE 87 + d

\* Buffer.from(str, 'hex'): the bytes of the leading pairs of hex digits.
FromHexStr(str) ==
  LET pairs == Len(str) \div 2
      good(k) == hexDigit(str[2 * k - 1]) # Undef /\ hexDigit(str[2 * k]) # Undef
      bad == {k \in 1..pairs : ~good(k)}
      n == IF bad = {} THEN pairs ELSE SetMin(bad) - 1
  IN [k \in 1..n |-> hexDigit(str[2 * k - 1]) * 16 + hexDigit(str[2 * k])]

\* str.replace('0x', ''): the string without the first occurrence of "0x".
Strip0x(str) ==
  LET hits == {i \in 1..(Len(str) - 1) : str[i] = 48 /\ str[i + 1] = 120} IN
  IF hits = {} THEN str
  ELSE SubSeq(str, 1, SetMin(hits) - 1) \o SubSeq(str, SetMin(hits) + 2, Len(str))

\* Buffer.from(hex, 'hex') for a hex string held as digit values.
FromHex(hex) == [k \in 1..(Len(hex) \div 2) |-> hex[2 * k - 1] * 16 + hex[2 * k]]

\* ------------------------------------------------------------ DER building
encodeLength(len) ==
  IF len < 128 THEN <<len>>
  ELSE IF len < 256 THEN <<129, len>>
  ELSE <<130, (len \div 256) % 256, len % 256>>

buildSubjectPublicKeyInfo(publicKey) ==
  LET ecPoint == FromHex(publicKey.publicKeyHex)
      algId == <<48, 19, 6, 7, 42, 134, 72, 206, 61, 2, 1,
                 6, 8, 42, 134, 72, 206, 61, 3, 1, 7>>
      pubKeyBitString == <<3, Len(ecPoint) + 1, 0>> \o ecPoint
      inner == algId \o pubKeyBitString
  IN <<48>> \o encodeLength(Len(inner)) \o inner

buildCertificateObject(cert) ==
  LET tag70 == <<112>> \o encodeLength(Len(cert)) \o cert
      inner == tag70 \o <<113, 1, 0>> \o <<254, 0>>
  IN <<83>> \o encodeLength(Len(inner)) \o inner

\* ---------------------------------------------------------------- commands
\* SELECT: 00 A4 04 00 [len] [AID]
selectCmd == <<0, 164, 4, 0, Len(PIV_AID)>> \o PIV_AID

\* A variant that pads a short PIN and keeps a long one whole, which the
\* VERIFY-command property must tell apart.
pinBytesUncut(pin) ==
  [i \in 1..(IF Len(pin) > 8 THEN Len(pin) ELSE 8) |->
     IF i <= Len(pin) THEN pin[i] % 256 ELSE 255]

\* The PIN as 8 bytes: Buffer.alloc(8, 0xff) with the bytes of
\* Buffer.from(pin, 'ascii'), one per character (its code modulo 256),
\* copied over its start; copy() stops at the end of the target.
pinBytes(pin) ==
  [i \in 1..8 |-> IF i <= Len(pin) THEN pin[i] % 256 ELSE 255]

\* VERIFY: 00 20 00 80 08 [PIN]
verifyCmd(pin) == <<0, 32, 0, 128, 8>> \o pinBytes(pin)

getSlotObjectId(slot) ==
  CASE slot = 154 -> Some(<<95, 193, 5>>)
    [] slot = 156 -> Some(<<95, 193, 10>>)
    [] slot = 157 -> Some(<<95, 193, 11>>)
    [] slot = 158 -> Some(<<95, 193, 1>>)
    [] OTHER -> Null

\* GET DATA: 00 CB 3F FF [Lc] 5C [len] [object id] 00
getDataCmd(objectId) ==
  <<0, 203, 63, 255>> \o <<Len(objectId) + 2>> \o <<92, Len(objectId)>>
    \o objectId \o <<0>>

\* GENERAL AUTHENTICATE, witness request: 00 87 0A 9B 04 7C 02 80 00
witnessReqCmd == <<0, 135, AES192_ALG, 155, 4, 124, 2, 128, 0>>

\* GENERAL AUTHENTICATE, response: 00 87 0A 9B 26 7C 24 80 10 [witness] 81 10 [challenge]
authCmd(decryptedWitness, challenge) ==
  <<0, 135, AES192_ALG, 155, 38, 124, 36, 128, 16>> \o decryptedWitness
    \o <<129, 16>> \o challenge

\* GENERATE ASYMMETRIC KEY PAIR: 00 47 00 [slot] 05 AC 03 80 01 [alg]
generateCmd(slot) == <<0, 71, 0, slot, 5, 172, 3, 128, 1, PIV_ALGORITHM_ECCP256>>

\* GENERAL AUTHENTICATE, sign: 00 87 11 9A 26 7C 24 82 00 81 20 [hash]
signCmd(hash) ==
  <<0, 135, PIV_ALGORITHM_ECCP256, PIV_SLOT_AUTHENTICATION, 38, 124, 36, 130, 0, 129, 32>>
    \o hash

\* GET RESPONSE: 00 C0 00 00 [Le]
getResponseCmd(sw2) == <<0, 192, 0, 0, sw2>>

\* ---------------------------------------------------------- management key
mgmtKey == <<1, 2, 3, 4, 5, 6, 7, 8, 1, 2, 3, 4, 5, 6, 7, 8, 1, 2, 3, 4, 5, 6, 7, 8>>

\* AES-192-ECB on one 16-byte block, without padding. The cipher is stood for
\* by a keyed bijection on blocks (bytewise addition of the key), of which
\* the handshake uses only that decryption inverts encryption and that
\* distinct blocks encrypt to distinct blocks.
aesEncrypt(key, block) == [i \in 1..Len(block) |-> (block[i] + key[i]) % 256]
aesDecrypt(key, block) == [i \in 1..Len(block) |-> (block[i] + 256 - key[i]) % 256]

\* ------------------------------------------------------------ YubiKeyResult
\* { success: true, data } | { success: false, error }. An error message built
\* from a template carries the interpolated value in detail.
NoData == [none |-> TRUE]
Ok(data) == [success |-> TRUE, error |-> "", detail |-> <<>>, data |-> data]
Fail(error, detail) == [success |-> FALSE, error |-> error, detail |-> detail, data |-> NoData]

\* The result of transmit / transmitRaw: a Buffer, or an error message.
TxOk(data) == [success |-> TRUE, error |-> "", data |-> data]
TxFail(error) == [success |-> FALSE, error |-> error, data |-> <<>>]

\* A failed transmit result returned as the operation's own result.
AsResult(response) == Fail(response.error, <<>>)

\* sw[0] === 0x90 && sw[1] === 0x00 on the last two bytes of data.
swIs9000(data) == At(SliceLast2(data), 0) = 144 /\ At(SliceLast2(data), 1) = 0

\* selectPIV after transmit returned.
selectOutcome(response) ==
  IF ~response.success THEN AsResult(response)
  ELSE IF ~swIs9000(response.data)
       THEN Fail("Failed to select PIV: SW=", ToHex(SliceLast2(response.data)))
  ELSE Ok(NoData)

\* verifyPin with the retry test widened from (sw2 & 0xf0) === 0xc0 to
\* sw2 >= 0xc0: a variant the status-word property must tell apart.
verifyPinOutcomeWideMask(response) ==
  IF ~response.success THEN AsResult(response)
  ELSE LET sw == SliceLast2(response.data)
           sw1 == At(sw, 0)
           sw2 == At(sw, 1)
       IN IF sw1 = 144 /\ sw2 = 0 THEN Ok(NoData)
          ELSE IF sw1 = 99 /\ sw2 # Undef /\ sw2 >= 192
               THEN Fail("Wrong PIN. {remaining} attempts remaining.", <<sw2 % 16>>)
          ELSE IF sw1 = 105 /\ sw2 = 131 THEN Fail("PIN is blocked.", <<>>)
          ELSE Fail("PIN verification failed: SW=", ToHex(sw))

\* verifyPin after transmit returned.
verifyPinOutcome(response) ==
  IF ~response.success THEN AsResult(response)
  ELSE LET sw == SliceLast2(response.data)
           sw1 == At(sw, 0)
           sw2 == At(sw, 1)
       IN IF sw1 = 144 /\ sw2 = 0 THEN Ok(NoData)
          ELSE IF sw1 = 99 /\ sw2 # Undef /\ (sw2 \div 16) * 16 = 192
               THEN Fail("Wrong PIN. {remaining} attempts remaining.", <<sw2 % 16>>)
          ELSE IF sw1 = 105 /\ sw2 = 131 THEN Fail("PIN is blocked.", <<>>)
          ELSE Fail("PIN verification failed: SW=", ToHex(sw))

\* readPublicKey taking every 6A xx for the empty slot: a variant the
\* GET DATA status-word property must tell apart.
readPublicKeyOutcomeAny6A(response) ==
  IF ~response.success THEN AsResult(response)
  ELSE LET data == response.data
           sw == SliceLast2(data)
       IN IF At(sw, 0) = 106 THEN Fail("NO_KEY", <<>>)
          ELSE IF At(sw, 0) # 144 \/ At(sw, 1) # 0
               THEN Fail("Read public key failed: SW=", ToHex(sw))
          ELSE LET pubKey == parsePublicKeyFromCert(SliceDrop2(data)) IN
               IF ~pubKey.ok THEN Fail("Failed to parse public key from response", <<>>)
               ELSE Ok(pubKey.key)

\* readPublicKey after transmit returned.
readPublicKeyOutcome(response) ==
  IF ~response.success THEN AsResult(response)
  ELSE LET data == response.data
           sw == SliceLast2(data)
       IN IF At(sw, 0) = 106 /\ At(sw, 1) = 130 THEN Fail("NO_KEY", <<>>)
          ELSE IF At(sw, 0) # 144 \/ At(sw, 1) # 0
               THEN Fail("Read public key failed: SW=", ToHex(sw))
          ELSE LET pubKey == parsePublicKeyFromCert(SliceDrop2(data)) IN
               IF ~pubKey.ok THEN Fail("Failed to parse public key from response", <<>>)
               ELSE Ok(pubKey.key)

\* signHash after transmit returned.
signOutcome(response) ==
  IF ~response.success THEN AsResult(response)
  ELSE LET data == response.data
           sw == SliceLast2(data)
       IN IF At(sw, 0) # 144 \/ At(sw, 1) # 0
          THEN Fail("Signing failed: SW=", ToHex(sw))
          ELSE LET sig == parseSignatureResponse(SliceDrop2(data)) IN
               IF ~sig.ok THEN Fail("Failed to parse signature from response", <<>>)
               ELSE Ok([signatureDer |-> sig.signatureDer, r |-> sig.r, s |-> sig.s])

\* A variant that takes a witness of any length, which the handshake-order
\* property must tell apart.
witnessOutcomeAnyLength(response) ==
  IF ~response.success THEN AsResult(response)
  ELSE LET data == response.data
           sw == SliceLast2(data)
       IN IF At(sw, 0) # 144 \/ At(sw, 1) # 0
          THEN Fail("Witness request failed: SW=", ToHex(sw))
          ELSE LET witness == parseTlvValue(SliceDrop2(data), 128) IN
               IF ~witness.ok
               THEN Fail("Failed to parse witness (got {n} bytes, expected 16)", <<>>)
               ELSE [Ok(NoData) EXCEPT !.detail = witness.val]

\* authenticateManagementKey, step 1, after transmit returned: the failure
\* to return, or success carrying the 16-byte witness in detail.
witnessOutcome(response) ==
  IF ~response.success THEN AsResult(response)
  ELSE LET data == response.data
           sw == SliceLast2(data)
       IN IF At(sw, 0) # 144 \/ At(sw, 1) # 0
          THEN Fail("Witness request failed: SW=", ToHex(sw))
          ELSE LET witness == parseTlvValue(SliceDrop2(data), 128) IN
               IF ~witness.ok \/ Len(witness.val) # 16
               THEN Fail("Failed to parse witness (got {n} bytes, expected 16)",
                         IF witness.ok THEN <<Len(witness.val)>> ELSE <<>>)
               ELSE [Ok(NoData) EXCEPT !.detail = witness.val]

\* A comparison that leaves out the first byte: a variant the handshake
\* property must tell apart.
cardResponseEqualsTail(cardResponse, expectedResponse) ==
  SubSeq(cardResponse, 2, Len(cardResponse)) = SubSeq(expectedResponse, 2, Len(expectedResponse))

\* The comparison of the card's response with the expected one.
cardResponseEquals(cardResponse, expectedResponse) == cardResponse = expectedResponse

\* authenticateManagementKey, step 2, after transmit returned.
authOutcome(response, challenge) ==
  IF ~response.success THEN AsResult(response)
  ELSE LET data == response.data
           sw == SliceLast2(data)
       IN IF At(sw, 0) # 144 \/ At(sw, 1) # 0
          THEN Fail("Management key auth failed: SW=", ToHex(sw))
          ELSE LET cardResponse == parseTlvValue(SliceDrop2(data), 130) IN
               IF ~cardResponse.ok \/ Len(cardResponse.val) # 16
               THEN Fail("Failed to parse card response", <<>>)
               ELSE IF ~cardResponseEquals(cardResponse.val, aesEncrypt(mgmtKey, challenge))
               THEN Fail("Card response verification failed", <<>>)
               ELSE Ok(NoData)

\* generateNewKey after the GENERATE transmit returned.
generateOutcome(response) ==
  IF ~response.success THEN AsResult(response)
  ELSE LET data == response.data
           sw == SliceLast2(data)
       IN IF At(sw, 0) # 144 \/ At(sw, 1) # 0
          THEN Fail("Key generation failed: SW=", ToHex(sw))
          ELSE LET pubKey == parsePublicKeyResponse(SliceDrop2(data)) IN
               IF ~pubKey.ok THEN Fail("Failed to parse generated public key", <<>>)
               ELSE Ok(pubKey.key)

\* =================================================================== state
VARIABLES
  pcsc,                    \* this.pcsc: the PC/SC context held, 0 for null
  reader,                  \* this.reader: the reader handle held, 0 for null
  protocol,                \* this.protocol: 0 for null
  isConnected,             \* this.isConnected
  connectPromiseResolved,  \* this.connectPromiseResolved
  ctxs,                    \* the PC/SC contexts created by connect(), with the
                           \* promise and the timer of the attempt that made each
  rds,                     \* the reader objects handed out by the PC/SC layer
  calls,                   \* the IPC invocations in flight
  token,                   \* the PIV token: key and certificate object of slot 9A
  pinOn,                   \* history: the reader on whose card connection VERIFY
                           \* last returned 90 00, 0 after a disconnect or reconnect
  authOn,                  \* history: the same for the management-key handshake
  genDone,                 \* history: generateP256Key has returned a generated key
  app,                     \* the renderer's wizard: AppState, the state of the step
                           \* component on screen, the calls it has in flight
  relay                    \* the relayer: the EvmConnector's key, the renderer's
                           \* relayerStatus, the settings panel's calls in flight

vars == <<pcsc, reader, protocol, isConnected, connectPromiseResolved,
          ctxs, rds, calls, token, pinOn, authOn, genDone, app, relay>>

CallIds == 1..MaxCalls
CtxIds == 1..MaxConn
ReaderIds == 1..MaxReaders

\* ------------------------------------------------------- transmit, host side
\* One transmit() call in progress: the reader and command of the raw exchange
\* in flight (rd = 0: none), the loop's data, the raw responses received so
\* far and the GET RESPONSE commands sent; rest is the card's
\* side of a continuation, the bytes it still holds; link, the reader had a
\* card connection when the raw exchange in flight was handed to it.
IdleX ==
  [rd |-> 0, link |-> FALSE, cmd |-> <<>>, data |-> <<>>, rest |-> <<>>,
   raws |-> <<>>, gets |-> <<>>]

\* transmitRaw's guard: !this.reader || this.protocol === null; before it a
\* variant that tests the reader alone, which the no-session property must
\* tell apart.
notConnectedReaderOnly(rdNow, protoNow) == rdNow = 0
notConnected(rdNow, protoNow) == rdNow = 0 \/ protoNow = 0

NotConnectedMsg == "Not connected"

\* transmit(command) up to its first raw exchange.
StartX(rdNow, cmd) == [IdleX EXCEPT !.rd = rdNow, !.link = rds[rdNow].card, !.cmd = cmd]

\* A variant that asks for 256 bytes (Le = 0) whatever the card announced,
\* which the continuation property must tell apart.
continuationCmdLeZero(data) == getResponseCmd(0)

\* The GET RESPONSE command transmit sends for data ending in 61 xx.
continuationCmd(data) == getResponseCmd(At(data, Len(data) - 1))

\* data after a raw response: the first response as it is, a later one
\* appended to the data without its previous status word.
appendRaw(x, raw) == IF x.raws = <<>> THEN raw ELSE SliceDrop2(x.data) \o raw

\* The loop test of transmit: data.length >= 2 and sw1 === 0x61.
needsMore(data) == Len(data) >= 2 /\ At(data, Len(data) - 2) = 97

\* transmit after a raw exchange ended with rawres (TxOk or TxFail): either
\* the next raw exchange (more) or the value transmit returns (ret).
OnRaw(x, rawres, rdNow, protoNow) ==
  IF ~rawres.success
  THEN [more |-> FALSE, ret |-> rawres, x |-> x]
  ELSE LET data == appendRaw(x, rawres.data)
           raws == Append(x.raws, rawres.data)
       IN IF needsMore(data)
          THEN (IF notConnected(rdNow, protoNow)
                THEN [more |-> FALSE, ret |-> TxFail(NotConnectedMsg),
                      x |-> [x EXCEPT !.data = data, !.raws = raws]]
                ELSE [more |-> TRUE, ret |-> TxFail(""),
                      x |-> [x EXCEPT !.rd = rdNow, !.link = rds[rdNow].card,
                                      !.cmd = continuationCmd(data),
                                      !.data = data, !.raws = raws,
                                      !.gets = Append(x.gets, continuationCmd(data))]])
          ELSE [more |-> FALSE, ret |-> TxOk(data),
                x |-> [x EXCEPT !.data = data, !.raws = raws]]

\* ------------------------------------------------------------ the PIV token
\* The uncompressed point of key k: 04 || x || y.
Point(k) == <<4>> \o Fill(32, 160 + k) \o Fill(32, 176 + k)

PointKey(k) ==
  PublicKeyResult(Point(k), Slice(Point(k), 1, 33), Slice(Point(k), 33, 65))

\* The certificate object the external tool stores for key k; 3 stands for a
\* certificate that holds no EC key.
TokenObject(k) ==
  IF k = 3 THEN buildCertificateObject(<<48, 3, 2, 1, 1>>)
  ELSE buildCertificateObject(buildSubjectPublicKeyInfo(PointKey(k)))

\* The key a GENERATE makes: the token alternates between two key values.
NextKey(k) == IF k = 1 THEN 2 ELSE 1

SW_OK == <<144, 0>>
SW_NOT_FOUND == <<106, 130>>
SW_SECURITY == <<105, 130>>
SW_WRONG_PIN_3 == <<99, 195>>
SW_PIN_BLOCKED == <<105, 131>>
SW_WRONG_DATA == <<106, 128>>

\* The witness the card issues, and the 8-byte witness of a 3DES key.
CardWitness == Fill(16, 90)
ShortWitness == Fill(8, 90)

\* The challenges crypto.randomBytes(16) may draw.
Challenges == {Fill(16, 17), Fill(16, 34)}

\* The block with bit b (1, 2, .. 128) of byte n flipped.
FlipBit(block, n, b) ==
  [i \in 1..Len(block) |->
     IF i = n THEN (IF (block[i] \div b) % 2 = 0 THEN block[i] + b ELSE block[i] - b)
     ELSE block[i]]

\* A DER ECDSA signature with a 32-byte r and a 33-byte high s.
CardSignature ==
  <<48, 69, 2, 32>> \o Fill(32, 17) \o <<2, 33>> \o <<0, 192>> \o Fill(31, 1)

\* The environment a specification runs the manager in: faults, the token,
\* the PC/SC layer, the file system and the external tool may fail; cont,
\* the continuation rounds the card may use for one response; overlap, the
\* renderer may invoke a call before the previous one is answered.
\* anysw, the token may answer VERIFY and GET DATA with any status word;
\* probe, the token's answers to the sign command, to GET DATA, to GENERATE
\* and to the witness request are drawn from sets of bodies that exercise
\* the response parsers, and the PIN strings are of every length;
\* closefail, the pcsc.close() of connect()'s cleanup may throw and leave the
\* context open.
Faulty ==
  [faults |-> TRUE, cont |-> MaxCont, overlap |-> FALSE, anysw |-> FALSE, probe |-> FALSE,
   closefail |-> FALSE]
FaultFree ==
  [faults |-> FALSE, cont |-> 0, overlap |-> TRUE, anysw |-> FALSE, probe |-> FALSE,
   closefail |-> FALSE]
AnyStatus ==
  [faults |-> FALSE, cont |-> 0, overlap |-> FALSE, anysw |-> TRUE, probe |-> FALSE,
   closefail |-> FALSE]
Chunked ==
  [faults |-> FALSE, cont |-> MaxRounds, overlap |-> FALSE, anysw |-> FALSE, probe |-> FALSE,
   closefail |-> FALSE]

CloseFaulty ==
  [faults |-> FALSE, cont |-> 0, overlap |-> FALSE, anysw |-> FALSE, probe |-> FALSE,
   closefail |-> TRUE]

\* Nothing fails and the renderer awaits each call.
Working ==
  [faults |-> FALSE, cont |-> 0, overlap |-> FALSE, anysw |-> FALSE, probe |-> FALSE,
   closefail |-> FALSE]

Probing ==
  [faults |-> FALSE, cont |-> 0, overlap |-> FALSE, anysw |-> FALSE, probe |-> TRUE,
   closefail |-> FALSE]

\* --- bodies for the signature parser
\* 256-bit values as 32 bytes: 1, 2, half the order h, and values around h
\* and the order n.
BigOne == Fill(31, 0) \o <<1>>
BigTwo == Fill(31, 0) \o <<2>>
HalfOrder == BigHalf(CurveOrder)

ProbeS ==
  {BigOne, Fill(32, 17), BigSub(HalfOrder, BigOne), HalfOrder,
   BigSub(CurveOrder, HalfOrder), <<128>> \o Fill(31, 0), <<200>> \o Fill(31, 1),
   BigSub(CurveOrder, BigTwo), BigSub(CurveOrder, BigOne)}

ProbeR == {Fill(32, 17), <<200>> \o Fill(31, 1), Fill(30, 0) \o <<5, 7>>}

\* The content bytes of a DER INTEGER for a value: no leading zero bytes, and
\* a 00 before a first byte of 0x80 or more.
MinInt(v) ==
  LET nz == {i \in 1..Len(v) : v[i] # 0}
      body == IF nz = {} THEN <<0>> ELSE SubSeq(v, SetMin(nz), Len(v))
  IN IF body[1] >= 128 THEN <<0>> \o body ELSE body

\* 02 [len] [content], 30 [len] r s, and the response 7C [len] 82 [len] [sig]
\* 90 00 of the sign command.
DerInt(content) == <<2, Len(content)>> \o content
DerSig(rc, sc) ==
  <<48, Len(DerInt(rc)) + Len(DerInt(sc))>> \o DerInt(rc) \o DerInt(sc)
SignReply(der) == <<124, Len(der) + 2, 130, Len(der)>> \o der \o SW_OK

\* Well-formed signatures.
GoodSignReplies == {SignReply(DerSig(MinInt(r), MinInt(s))) : r \in ProbeR, s \in ProbeS}

\* INTEGERs whose content does not fit 32 bytes after the sign byte: 33
\* bytes beginning 01, 34 bytes beginning 00 00.
WideInts == {<<1>> \o Fill(32, 17), <<0, 0>> \o Fill(31, 17) \o <<35>>}
WideSignReplies ==
  {SignReply(DerSig(w, MinInt(BigOne))) : w \in WideInts}
    \cup {SignReply(DerSig(MinInt(Fill(32, 17)), w)) : w \in WideInts}

\* Responses that end before the bytes their length fields declare: cut
\* bytes off the end of the signature (inside s, or inside r), or declare
\* more for the 82 value than is there.
CutReply(der, k) ==
  <<124, Len(der) + 2, 130, Len(der)>> \o SubSeq(der, 1, Len(der) - k) \o SW_OK
LongDeclared(der, k) ==
  <<124, Len(der) + k + 2, 130, Len(der) + k>> \o der \o SW_OK
ShortSignReplies ==
  LET der == DerSig(MinInt(Fill(32, 17)), MinInt(Fill(32, 34))) IN
  {CutReply(der, 5), CutReply(der, 40), LongDeclared(der, 10)}

\* --- bodies for the certificate parser
\* Uncompressed points whose coordinates hold bytes the parser searches for.
ProbePoints ==
  {Point(1), <<4>> \o Fill(64, 3), <<4>> \o Fill(64, 0),
   <<4, 3, 66, 0, 4>> \o Fill(60, 0),
   <<4>> \o ecPubKeyOid \o Fill(55, 255),
   <<4, 3, 129, 66, 0, 4>> \o Fill(59, 66)}

KeyOfPoint(p) == PublicKeyResult(p, Slice(p, 1, 33), Slice(p, 33, 65))

\* A blob that holds a point in a BIT STRING with the given header, after an
\* algorithm identifier (which holds the OID) or after an INTEGER; and the
\* blob without its last k bytes.
BitStringHeaders == {<<3, 66>>, <<3, 129, 66>>, <<3, 130, 0, 66>>}
BlobPrefixes ==
  {<<48, 19>> \o ecPubKeyOid \o <<6, 8, 42, 134, 72, 206, 61, 3, 1, 7>>, <<2, 1, 1>>}
CertBlob(pre, hdr, p) == pre \o hdr \o <<0>> \o p
CutBlob(blob, k) == SubSeq(blob, 1, Len(blob) - k)
MaxCut == 3

\* A complete short-form BIT STRING with point q placed before the algorithm
\* identifier, followed by a BIT STRING with Point(1) or by nothing more.
DecoyBlobs ==
  {<<3, 66, 0>> \o Point(2) \o CertBlob(pre, <<3, 66>>, Point(1)) : pre \in BlobPrefixes}
    \cup {<<3, 66, 0>> \o Point(2) \o pre \o <<5, 0>> : pre \in BlobPrefixes}

CertReplies ==
  {buildSubjectPublicKeyInfo(KeyOfPoint(p)) \o SW_OK : p \in ProbePoints}
    \cup {b \o SW_OK : b \in DecoyBlobs}
    \cup {CutBlob(CertBlob(pre, hdr, Point(1)), k) \o SW_OK :
            pre \in BlobPrefixes, hdr \in BitStringHeaders, k \in 0..MaxCut}
    \cup {SW_NOT_FOUND}

\* --- bodies for the GENERATE response parser
\* 7F 49 [len] [tag] [declared length] [value] for the point p: well formed
\* (short and long form of the length), another tag, a declared length of
\* 64, a declared length of 70 over the 65 bytes, the value without its last
\* byte, a first byte that is not 04; and refusals.
KeyBody(tag, lenField, value) ==
  <<127, 73, 1 + Len(lenField) + Len(value), tag>> \o lenField \o value

GenerateReplies(p) ==
  {KeyBody(134, <<65>>, p) \o SW_OK,
   KeyBody(134, <<129, 65>>, p) \o SW_OK,
   KeyBody(135, <<65>>, p) \o SW_OK,
   KeyBody(134, <<64>>, p) \o SW_OK,
   KeyBody(134, <<70>>, p) \o SW_OK,
   KeyBody(134, <<65>>, SubSeq(p, 1, 64)) \o SW_OK,
   KeyBody(134, <<65>>, <<5>> \o SubSeq(p, 2, 65)) \o SW_OK,
   SW_SECURITY, SW_WRONG_DATA}

\* Raw responses too short to hold a status word.
ShortRaw == {<<>>, <<144>>}

\* Answers to the witness request: the witness of 16 bytes in the 7C
\* template, bare, and after another element; one of 17 bytes; one cut to
\* 12 bytes; one under tag 81; none; and a witness with a refusing status.
WitnessReplies ==
  {<<124, 18, 128, 16>> \o Fill(16, 90) \o <<144, 0>>,
   <<128, 16>> \o Fill(16, 90) \o <<144, 0>>,
   <<124, 20, 129, 0, 128, 16>> \o Fill(16, 90) \o <<144, 0>>,
   <<124, 19, 128, 17>> \o Fill(17, 90) \o <<144, 0>>,
   <<124, 18, 128, 16>> \o Fill(12, 90) \o <<144, 0>>,
   <<124, 18, 129, 16>> \o Fill(16, 90) \o <<144, 0>>,
   <<144, 0>>,
   <<124, 18, 128, 16>> \o Fill(16, 90) \o <<105, 130>>}

ProbeReplies(step) ==
  ShortRaw \cup
    (IF step = "sign" THEN GoodSignReplies \cup WideSignReplies \cup ShortSignReplies
     ELSE IF step = "generate" THEN GenerateReplies(Point(NextKey(token.key)))
     ELSE IF step = "witness" THEN WitnessReplies
     ELSE CertReplies)

\* What a token in working order answers to the command of each step
\* (payload and final status word).
GoodReply(step, chal) ==
  CASE step = "select" -> <<97, 2, 79, 0>> \o SW_OK
    [] step = "verify" -> SW_OK
    [] step = "getdata" ->
         IF token.cert = 0 THEN SW_NOT_FOUND ELSE TokenObject(token.cert) \o SW_OK
    [] step = "witness" -> <<124, 18, 128, 16>> \o CardWitness \o SW_OK
    [] step = "auth" -> <<124, 18, 130, 16>> \o aesEncrypt(mgmtKey, chal) \o SW_OK
    [] step = "generate" -> <<127, 73, 67, 134, 65>> \o Point(NextKey(token.key)) \o SW_OK
    [] step = "sign" -> <<124, 73, 130, 71>> \o CardSignature \o SW_OK

\* The other answers a token may give: a refusal, a wrong PIN, a blocked
\* PIN, a witness of another key type, a response that does not match.
BadReplies(step, chal) ==
  CASE step = "select" -> {SW_NOT_FOUND}
    [] step = "verify" -> {SW_WRONG_PIN_3, SW_PIN_BLOCKED, SW_WRONG_DATA}
    [] step = "witness" -> {<<124, 10, 128, 8>> \o ShortWitness \o SW_OK, SW_SECURITY}
    [] step = "auth" ->
         {<<124, 18, 130, 16>> \o FlipBit(aesEncrypt(mgmtKey, chal), 1, 1) \o SW_OK,
          <<124, 18, 130, 16>> \o FlipBit(aesEncrypt(mgmtKey, chal), 16, 128) \o SW_OK,
          SW_SECURITY}
    [] OTHER -> {SW_SECURITY}

\* Every status word, bare; for GET DATA also a certificate object, with or
\* without an EC key, before some of them.
AnyStatusReplies(step) ==
  {<<sw1, sw2>> : sw1 \in 0..255, sw2 \in 0..255}
    \cup (IF step = "getdata"
          THEN {TokenObject(k) \o sw : k \in {1, 3}, sw \in {SW_OK, SW_NOT_FOUND, SW_SECURITY}}
          ELSE {})

CardReplies(step, chal, E) ==
  IF E.anysw /\ step \in {"verify", "getdata"} THEN AnyStatusReplies(step)
  ELSE IF E.probe /\ step \in {"sign", "getdata", "generate", "witness"} THEN ProbeReplies(step)
  ELSE {GoodReply(step, chal)} \cup (IF E.faults THEN BadReplies(step, chal) ELSE {})

\* The card makes a new key when it answers GENERATE with a point.
MakesKey(step, bytes) == step = "generate" /\ Len(bytes) > 2

\* The ways the card hands over the bytes of a response: at once, or (split)
\* a first part of the payload with 61 xx, which it may do while it has used
\* fewer than maxCont continuation rounds.
CanSplit(bytes, rounds, maxCont) == rounds < maxCont /\ Len(bytes) > 2

Delivery(bytes, split) ==
  IF ~split THEN [raw |-> bytes, rest |-> <<>>]
  ELSE LET payload == SliceDrop2(bytes)
           k == Len(payload) \div 2
       IN [raw |-> SubSeq(payload, 1, k) \o <<97, (Len(payload) - k) % 256>>,
           rest |-> SubSeq(bytes, k + 1, Len(bytes))]

\* What the raw exchange in flight in x may come back with: a transport
\* error, or, when the reader had a card connection, bytes from the card
\* (made: the card made a new key in this exchange).
TransportErrors == {"SCardTransmit failed"}

Outcome(bytes, split, made) ==
  [res |-> TxOk(Delivery(bytes, split).raw), rest |-> Delivery(bytes, split).rest,
   made |-> made]

RawOutcomes(x, step, chal, E) ==
  {[res |-> TxFail(m), rest |-> <<>>, made |-> FALSE] :
     m \in IF E.faults \/ ~x.link THEN TransportErrors ELSE {}}
    \cup (IF ~x.link THEN {}
          ELSE IF x.raws = <<>>
          THEN {Outcome(b, FALSE, MakesKey(step, b)) : b \in CardReplies(step, chal, E)}
                 \cup {Outcome(b, TRUE, MakesKey(step, b)) :
                         b \in {d \in CardReplies(step, chal, E) : CanSplit(d, 0, E.cont)}}
          ELSE {Outcome(x.rest, split, FALSE) :
                  split \in {FALSE} \cup {y \in {TRUE} : CanSplit(x.rest, Len(x.raws), E.cont)}})

\* ------------------------------------------------------------------- calls
\* An IPC invocation: the operation, where it is suspended (pc), its input
\* (arg), the transmit call in progress (step, x), the handshake challenge,
\* the connection attempt it awaits (att), generateResult (gen) and, once
\* done, the outcome sent back (res; threw: the handler's promise rejected).
\* History of the call: sent, the steps whose command was handed to the
\* reader; last, the latest transmit call that returned; gd and au, what
\* transmit returned for GET DATA and for the handshake response.
NoTx == [step |-> "", ret |-> TxFail(""), raws |-> <<>>, gets |-> <<>>]

IdleCall ==
  [op |-> "idle", pc |-> "idle", arg |-> <<>>, step |-> "", x |-> IdleX,
   chal |-> <<>>, att |-> 0, gen |-> Ok(NoData), res |-> Ok(NoData), threw |-> FALSE,
   sent |-> {}, last |-> NoTx, gd |-> TxFail(""), au |-> TxFail("")]

NewCall(op, arg) == [IdleCall EXCEPT !.op = op, !.arg = arg]

Finish(c, res) == [c EXCEPT !.pc = "done", !.step = "", !.x = IdleX, !.res = res]

\* The call with the returned transmit recorded.
Returned(c, step, x, ret) ==
  [c EXCEPT !.step = step, !.x = IdleX,
            !.last = [step |-> step, ret |-> ret, raws |-> x.raws, gets |-> x.gets],
            !.gd = IF step = "getdata" THEN ret ELSE @,
            !.au = IF step = "auth" THEN ret ELSE @]

\* The call suspended on the first raw exchange of transmit(cmd).
Flying(c, step, cmd, rdNow) ==
  [c EXCEPT !.pc = "raw", !.step = step, !.x = StartX(rdNow, cmd),
            !.sent = @ \cup {step}]

\* --- single-command operations
\* after(ret) is the operation's code after `await this.transmit(command)`.
verifyPinFrom(c, rdNow, protoNow) ==
  IF notConnected(rdNow, protoNow)
  THEN Finish(Returned(c, "verify", IdleX, TxFail(NotConnectedMsg)),
              verifyPinOutcome(TxFail(NotConnectedMsg)))
  ELSE Flying(c, "verify", verifyCmd(c.arg), rdNow)

\* readPublicKey(slot) up to its transmit; the slot is always 9A.
readPublicKeyCmd == getDataCmd(getSlotObjectId(PIV_SLOT_AUTHENTICATION).val)

readPublicKeyFromSlotFrom(c, rdNow, protoNow) ==
  IF notConnected(rdNow, protoNow)
  THEN Finish(Returned(c, "getdata", IdleX, TxFail(NotConnectedMsg)),
              readPublicKeyOutcome(TxFail(NotConnectedMsg)))
  ELSE Flying(c, "getdata", readPublicKeyCmd, rdNow)

\* signHash: the hash decoded from the hex string, the length check, transmit.
hashOf(hashHex) == FromHexStr(Strip0x(hashHex))

\* A variant that rejects only short hashes, which the input property must
\* tell apart.
shorterThan32(hash) == Len(hash) < 32

\* hash.length !== 32
wrongLength(hash) == Len(hash) # 32

signHashFrom(c, rdNow, protoNow) ==
  LET hash == hashOf(c.arg) IN
  IF wrongLength(hash) THEN Finish(c, Fail("Hash must be 32 bytes, got {n}", <<Len(hash)>>))
  ELSE IF notConnected(rdNow, protoNow)
  THEN Finish(Returned(c, "sign", IdleX, TxFail(NotConnectedMsg)),
              signOutcome(TxFail(NotConnectedMsg)))
  ELSE Flying(c, "sign", signCmd(hash), rdNow)

\* --- generateP256Key
\* storeCertificateViaYkman up to its first suspension, after the release:
\* mkdtempSync throws outside the try block (the call rejects), writing the
\* key file throws inside it (a failure result, then the reconnect), or the
\* external tool is started.
FsOutcomes == {"mkdtemp", "write", "exec"}

\* generateP256Key after generateNewKey returned generateResult g.
afterGenerateNewKey(c, g, fs) ==
  IF ~g.success THEN Finish(c, g)
  ELSE LET c1 == [c EXCEPT !.gen = g, !.step = "", !.x = IdleX] IN
       CASE fs = "mkdtemp" -> [Finish(c1, Fail("mkdtemp failed", <<>>)) EXCEPT !.threw = TRUE]
         [] fs = "write" -> [c1 EXCEPT !.pc = "timer"]
         [] OTHER -> [c1 EXCEPT !.pc = "ykman"]

\* generateNewKey after authenticateManagementKey returned authResult a.
afterAuthenticate(c, a, rdNow, protoNow) ==
  IF ~a.success THEN Finish(c, a)
  ELSE IF notConnected(rdNow, protoNow)
  THEN Finish(Returned(c, "generate", IdleX, TxFail(NotConnectedMsg)),
              generateOutcome(TxFail(NotConnectedMsg)))
  ELSE Flying(c, "generate", generateCmd(PIV_SLOT_AUTHENTICATION), rdNow)

\* authenticateManagementKey after the witness request returned.
afterWitness(c, ret, challenge, rdNow, protoNow) ==
  LET w == witnessOutcome(ret) IN
  IF ~w.success THEN Finish(c, [w EXCEPT !.detail = <<>>])
  ELSE IF notConnected(rdNow, protoNow)
  THEN Finish(Returned([c EXCEPT !.chal = challenge], "auth", IdleX,
                       TxFail(NotConnectedMsg)),
              AsResult(TxFail(NotConnectedMsg)))
  ELSE Flying([c EXCEPT !.chal = challenge], "auth",
              authCmd(aesDecrypt(mgmtKey, w.detail), challenge), rdNow)

\* authenticateManagementKey from `await import('crypto')` on.
authenticateFrom(c, rdNow, protoNow) ==
  IF notConnected(rdNow, protoNow)
  THEN Finish(Returned(c, "witness", IdleX, TxFail(NotConnectedMsg)),
              AsResult(TxFail(NotConnectedMsg)))
  ELSE Flying(c, "witness", witnessReqCmd, rdNow)

\* A variant that generates after any failed read, which the
\* generate-on-empty-slot property must tell apart.
afterReadAnyFailure(c, readResult) ==
  IF readResult.success THEN Finish(c, readResult)
  ELSE [c EXCEPT !.pc = "import", !.step = "", !.x = IdleX]

\* generateP256Key after readPublicKey returned readResult.
afterRead(c, readResult) ==
  IF readResult.success THEN Finish(c, readResult)
  ELSE IF readResult.error = "NO_KEY" THEN [c EXCEPT !.pc = "import", !.step = "", !.x = IdleX]
  ELSE Finish(c, readResult)

generateP256KeyFrom(c, rdNow, protoNow) ==
  IF notConnected(rdNow, protoNow)
  THEN afterRead(Returned(c, "getdata", IdleX, TxFail(NotConnectedMsg)),
                 readPublicKeyOutcome(TxFail(NotConnectedMsg)))
  ELSE Flying(c, "getdata", readPublicKeyCmd, rdNow)

\* The call after its transmit for c.step returned ret.
afterTransmit(c, ret, challenge, fs, rdNow, protoNow) ==
  LET c1 == Returned(c, c.step, c.x, ret) IN
  CASE c.step = "verify" -> Finish(c1, verifyPinOutcome(ret))
    [] c.step = "sign" -> Finish(c1, signOutcome(ret))
    [] c.step = "getdata" /\ c.op = "readPublicKeyFromSlot" ->
         Finish(c1, readPublicKeyOutcome(ret))
    [] c.step = "getdata" /\ c.op = "generateP256Key" ->
         afterRead(c1, readPublicKeyOutcome(ret))
    [] c.step = "witness" -> afterWitness(c1, ret, challenge, rdNow, protoNow)
    [] c.step = "auth" ->
         afterAuthenticate(c1, authOutcome(ret, c.chal), rdNow, protoNow)
    [] c.step = "generate" -> afterGenerateNewKey(c1, generateOutcome(ret), fs)

\* ------------------------------------------------------ PC/SC environment
\* A context made by pcsclite(): st is none / open / closed; timer, the 10 s
\* timeout of the attempt is pending; settled, the attempt's promise is
\* resolved; nf (history), the timeout resolved it with the not-found
\* failure and the context has not been closed since. A reader object: its
\* context, st none / live / closed / ended,
\* card (a card connection exists on it; followed while the reader is open,
\* an exchange in flight keeps its own record), pend (a reader.connect is
\* in flight), sel, the transmit of the selectPIV its callback started, and
\* piv (history), a SELECT PIV was answered 90 00 on its card connection.
NoCtx == [st |-> "none", timer |-> FALSE, settled |-> FALSE, nf |-> FALSE]
NoReader ==
  [ctx |-> 0, st |-> "none", card |-> FALSE, pend |-> FALSE, sel |-> IdleX, piv |-> FALSE]

FreshCtx == {c \in CtxIds : ctxs[c].st = "none" /\ \A d \in 1..(c - 1) : ctxs[d].st # "none"}
FreshReader == {r \in ReaderIds : rds[r].st = "none" /\ \A q \in 1..(r - 1) : rds[q].st # "none"}

\* reader.close() / pcsc.close() on the handles held (0: none held).
CloseReader(R, r) ==
  IF r = 0 THEN R
  ELSE [R EXCEPT ![r].st = IF @ = "live" THEN "closed" ELSE @, ![r].card = FALSE,
                 ![r].piv = FALSE]
CloseCtx(C, c) == IF c = 0 THEN C ELSE [C EXCEPT ![c].st = "closed", ![c].nf = FALSE]

\* The inputs of the IPC calls.
Pins == {<<49, 50, 51, 52, 53, 54>>}

\* PIN strings of other lengths: empty, 8 and 10 digits, and "1" followed by
\* the euro sign (U+20AC).
EdgePins ==
  {<<>>,
   <<49, 50, 51, 52, 53, 54, 55, 56>>,
   <<49, 50, 51, 52, 53, 54, 55, 56, 57, 48>>,
   <<49, 8364>>}

PinArgs(E) == IF E.probe THEN Pins \cup EdgePins ELSE Pins
HexDigits64 == [i \in 1..64 |-> hexChar(i % 16)]
HashArgs ==
  {<<48, 120>> \o HexDigits64,
   SubSeq(HexDigits64, 1, 62),
   <<48, 120>> \o HexDigits64 \o <<97, 98>>,
   SubSeq(HexDigits64, 1, 20) \o <<122>> \o SubSeq(HexDigits64, 22, 64)}

InitialTokens == {[key |-> 0, cert |-> 0], [key |-> 1, cert |-> 1]}

\* ------------------------------------------------------- renderer state
\* AppState. A key is a number, 0 standing for null; the owner address is
\* named by the key it derives from and the Safe by its owner; a transaction
\* is a number; a Safe transaction hash is the pair it is computed from; a
\* signature is the hash signed by the card with the public key formatted
\* into it.
NoHash == [safe |-> 0, tx |-> 0]
NoSafeSignature == [hash |-> NoHash, key |-> 0]

initialState ==
  [currentStep |-> "connect", readerName |-> 0, publicKey |-> 0, ownerAddress |-> 0,
   safeAddress |-> 0, transaction |-> 0, safeTxHash |-> NoHash,
   signature |-> NoSafeSignature, txHash |-> 0]

\* The useState values of the step component on screen, as at its mount.
NoLocal ==
  [connecting |-> FALSE, key |-> 0, predicted |-> 0, deployed |-> FALSE,
   nonce |-> FALSE, creating |-> FALSE, signing |-> FALSE, pinDialog |-> FALSE,
   pinLoading |-> FALSE, executing |-> FALSE, txHash |-> 0]

InitialApp == [state |-> initialState, local |-> NoLocal, flying |-> {}]

\* RelayerStatus of App, and the relayer as the application starts.
NoRelayer == [configured |-> FALSE, address |-> 0, balance |-> 0]

InitialRelay ==
  [privateKey |-> 0, walletClient |-> FALSE, status |-> NoRelayer,
   loading |-> FALSE, flying |-> {}, last |-> "", cleared |-> FALSE]

Init ==
  /\ app = InitialApp /\ relay = InitialRelay
  /\ pcsc = 0 /\ reader = 0 /\ protocol = 0
  /\ isConnected = FALSE /\ connectPromiseResolved = FALSE
  /\ ctxs = [c \in CtxIds |-> NoCtx]
  /\ rds = [r \in ReaderIds |-> NoReader]
  /\ calls = [t \in CallIds |-> IdleCall]
  /\ token \in InitialTokens
  /\ pinOn = 0 /\ authOn = 0 /\ genDone = FALSE

\* ---------------------------------------------------------------- history
\* generateP256Key has returned the key a GENERATE of this call made.
GenReturned(c) ==
  /\ c.op = "generateP256Key" /\ c.pc = "done" /\ ~c.threw
  /\ c.res.success /\ "generate" \in c.sent

GenHist == genDone' = (genDone \/ \E t \in CallIds : GenReturned(calls'[t]))

\* ------------------------------------------------------------- scheduling
\* An IPC invocation takes the lowest free slot. The reply of a finished call
\* goes out in the task that finished it, before any other callback runs.
\* A renderer that awaits its calls invokes one when none is in flight.
Free(t) == calls[t].pc = "idle" /\ \A u \in 1..(t - 1) : calls[u].pc # "idle"
Awaited == \A t \in CallIds : calls[t].pc = "idle"
Quiet == \A t \in CallIds : calls[t].pc # "done"
Invocable(t, E) == Quiet /\ Free(t) /\ (E.overlap \/ Awaited)

\* ---------------------------------------------------------------- connect
\* What the call waiting on a connection attempt returns once the attempt's
\* promise resolves: connect() its result, generateP256Key its generateResult.
Resume(c, result) == Finish(c, IF c.op = "connect" THEN result ELSE c.gen)

\* resolve(result) of attempt a: the first call settles the promise. Once it
\* is settled the attempt's timer can do nothing more: its only statement is
\* a resolve of this promise.
Settled(C, a, does) ==
  IF does THEN [C EXCEPT ![a].settled = TRUE, ![a].timer = FALSE] ELSE C
Woken(K, a, does, result) ==
  IF does /\ ~ctxs[a].settled
  THEN [t \in CallIds |->
          IF K[t].pc = "connect" /\ K[t].att = a THEN Resume(K[t], result) ELSE K[t]]
  ELSE K

ConnectInfo(r) == Ok([readerName |-> r, atr |-> ""])

\* The shortcut taken only once the attempt's promise is resolved: a variant
\* the idempotence property must tell apart.
alreadyConnectedResolved == connectPromiseResolved /\ reader # 0

\* this.isConnected && this.reader
alreadyConnected == isConnected /\ reader # 0

\* connect() called by the call in slot t, whose record is c.
connect(t, c, E) ==
  IF alreadyConnected
  THEN /\ calls' = [calls EXCEPT ![t] = Resume(c, ConnectInfo(reader))]
       /\ UNCHANGED <<pcsc, reader, protocol, isConnected, connectPromiseResolved,
                      ctxs, rds, token, pinOn, authOn>>
       /\ GenHist
       /\ UNCHANGED <<app, relay>>
  ELSE /\ isConnected' = FALSE /\ connectPromiseResolved' = FALSE
       /\ reader' = 0 /\ protocol' = 0
       /\ rds' = CloseReader(rds, reader)
       /\ pinOn' = 0 /\ authOn' = 0
       /\ \E a \in FreshCtx : \E thrown \in (IF E.faults THEN BOOLEAN ELSE {FALSE}) :
          \E kept \in (IF E.closefail /\ pcsc # 0 THEN BOOLEAN ELSE {FALSE}) :
            LET cleaned == IF kept THEN ctxs ELSE CloseCtx(ctxs, pcsc) IN
            IF thrown
            THEN /\ pcsc' = 0
                 /\ ctxs' = cleaned
                 /\ calls' = [calls EXCEPT ![t] = Resume(c, Fail("Failed to initialize PC/SC", <<>>))]
            ELSE /\ pcsc' = a
                 /\ ctxs' = [cleaned EXCEPT ![a] = [st |-> "open", timer |-> TRUE, settled |-> FALSE, nf |-> FALSE]]
                 /\ calls' = [calls EXCEPT ![t] = [c EXCEPT !.pc = "connect", !.att = a]]
       /\ UNCHANGED token
       /\ GenHist
       /\ UNCHANGED <<app, relay>>

\* IPC yubikey:connect
Connect(t, E) ==
  /\ Invocable(t, E)
  /\ connect(t, NewCall("connect", <<>>), E)

\* The 'reader' event of context a for a reader named as a YubiKey.
ReaderDetected(a) ==
  /\ Quiet
  /\ ctxs[a].st = "open"
  /\ \E r \in FreshReader :
       /\ reader' = r
       /\ rds' = [rds EXCEPT ![r] = [NoReader EXCEPT !.ctx = a, !.st = "live"]]
  /\ UNCHANGED <<pcsc, protocol, isConnected, connectPromiseResolved, ctxs, calls,
                 token, pinOn, authOn, genDone, app, relay>>

\* The 'status' event of reader r with a card present, outside the skip.
ReaderStatus(r) ==
  /\ Quiet
  /\ rds[r].st = "live"
  /\ ~(isConnected \/ connectPromiseResolved)
  /\ ~rds[r].pend
  /\ rds' = [rds EXCEPT ![r].pend = TRUE]
  /\ UNCHANGED <<pcsc, reader, protocol, isConnected, connectPromiseResolved, ctxs,
                 calls, token, pinOn, authOn, genDone, app, relay>>

\* The .then / .catch handlers on selectPIV() in the callback of reader r:
\* the first to run with the flag clear sets it and resolves the attempt.
selectHandled(r, selectResult) ==
  LET a == rds[r].ctx
      does == ~connectPromiseResolved
      result == IF selectResult.success
                THEN Ok([readerName |-> r, atr |-> "atr"])
                ELSE selectResult
  IN /\ connectPromiseResolved' = TRUE
     /\ ctxs' = Settled(ctxs, a, does)
     /\ calls' = Woken(calls, a, does, result)

\* The callback of reader.connect on reader r: an error, or a card connection
\* with the protocol as a number or not, then selectPIV up to its suspension.
ConnectCallback(r, E) ==
  /\ Quiet
  /\ rds[r].pend
  /\ rds[r].sel.rd = 0
  /\ \E err \in (IF E.faults THEN BOOLEAN ELSE {FALSE}) :
     \E proto \in (IF E.faults THEN {SCARD_PROTOCOL_T1, 0} ELSE {SCARD_PROTOCOL_T1}) :
       IF err
       THEN /\ connectPromiseResolved' = TRUE
            /\ ctxs' = Settled(ctxs, rds[r].ctx, ~connectPromiseResolved)
            /\ calls' = Woken(calls, rds[r].ctx, ~connectPromiseResolved,
                              Fail("SCardConnect failed", <<>>))
            /\ rds' = [rds EXCEPT ![r].pend = FALSE]
            /\ UNCHANGED <<protocol, isConnected>>
       ELSE /\ protocol' = IF proto # 0 THEN proto ELSE protocol
            /\ isConnected' = IF proto # 0 THEN TRUE ELSE isConnected
            /\ IF notConnected(reader, protocol')
               THEN /\ rds' = [rds EXCEPT ![r].pend = FALSE, ![r].card = rds[r].st = "live",
                                           ![r].piv = FALSE]
                    /\ selectHandled(r, selectOutcome(TxFail(NotConnectedMsg)))
               ELSE /\ rds' = [rds EXCEPT ![r].pend = FALSE, ![r].card = rds[r].st = "live",
                                           ![r].piv = FALSE,
                                           ![r].sel = [StartX(reader, selectCmd) EXCEPT
                                                         !.link = IF reader = r THEN rds[r].st = "live"
                                                                  ELSE rds[reader].card]]
                    /\ UNCHANGED <<connectPromiseResolved, ctxs, calls>>
  /\ UNCHANGED <<pcsc, reader, token>>
  /\ pinOn' = IF pinOn = r THEN 0 ELSE pinOn
  /\ authOn' = IF authOn = r THEN 0 ELSE authOn
  /\ GenHist
  /\ UNCHANGED <<app, relay>>

\* The callback of a raw exchange of the selectPIV started for reader r.
SelectRaw(r, E) ==
  /\ Quiet
  /\ rds[r].sel.rd # 0
  /\ \E o \in RawOutcomes(rds[r].sel, "select", <<>>, [E EXCEPT !.cont = 0]) :
       LET n == OnRaw([rds[r].sel EXCEPT !.rest = o.rest], o.res, reader, protocol) IN
       IF n.more
       THEN /\ rds' = [rds EXCEPT ![r].sel = n.x]
            /\ UNCHANGED <<connectPromiseResolved, ctxs, calls>>
       ELSE /\ rds' = [rds EXCEPT ![r].sel = IdleX,
                                   ![rds[r].sel.rd].piv =
                                     @ \/ (rds[rds[r].sel.rd].card /\ selectOutcome(n.ret).success)]
            /\ IF connectPromiseResolved
               THEN UNCHANGED <<connectPromiseResolved, ctxs, calls>>
               ELSE selectHandled(r, selectOutcome(n.ret))
  /\ UNCHANGED <<pcsc, reader, protocol, isConnected, token, pinOn, authOn>>
  /\ GenHist
  /\ UNCHANGED <<app, relay>>

\* The 'end' event of reader r, after its removal or its close.
ReaderEnd(r) ==
  /\ Quiet
  /\ rds[r].st \in {"live", "closed"}
  /\ rds' = [rds EXCEPT ![r].st = "ended", ![r].card = FALSE, ![r].piv = FALSE]
  /\ reader' = 0
  /\ pinOn' = 0 /\ authOn' = 0
  /\ UNCHANGED <<pcsc, protocol, isConnected, connectPromiseResolved, ctxs, calls,
                 token, genDone, app, relay>>

\* The 'error' event of context a.
PcscError(a) ==
  /\ Quiet
  /\ ctxs[a].st = "open"
  /\ ~ctxs[a].settled
  /\ ctxs' = Settled(ctxs, a, TRUE)
  /\ calls' = Woken(calls, a, TRUE, Fail("PC/SC error", <<>>))
  /\ UNCHANGED <<pcsc, reader, protocol, isConnected, connectPromiseResolved, rds,
                 token, pinOn, authOn>>
  /\ GenHist
  /\ UNCHANGED <<app, relay>>

\* The 10 s timer of attempt a.
ConnectTimeout(a) ==
  /\ Quiet
  /\ ctxs[a].timer
  /\ ctxs' = [Settled(ctxs, a, reader = 0 /\ ~ctxs[a].settled) EXCEPT
               ![a].timer = FALSE,
               ![a].nf = reader = 0 /\ ~ctxs[a].settled /\ ctxs[a].st = "open"]
  /\ calls' = Woken(calls, a, reader = 0,
                    Fail("No YubiKey found. Please insert your YubiKey.", <<>>))
  /\ UNCHANGED <<pcsc, reader, protocol, isConnected, connectPromiseResolved, rds,
                 token, pinOn, authOn>>
  /\ GenHist
  /\ UNCHANGED <<app, relay>>

\* IPC yubikey:disconnect; a close() may throw.
Disconnect(t, E) ==
  /\ Invocable(t, E)
  /\ \E thrown \in (IF E.faults THEN {"none", "reader", "pcsc"} ELSE {"none"}) :
       /\ thrown = "reader" => reader # 0
       /\ thrown = "pcsc" => pcsc # 0
       /\ IF thrown = "reader"
          THEN /\ UNCHANGED <<pcsc, reader, protocol, isConnected, connectPromiseResolved,
                              ctxs, rds, pinOn, authOn>>
               /\ calls' = [calls EXCEPT ![t] =
                              Finish(NewCall("disconnect", <<>>), Fail("Failed to disconnect", <<>>))]
          ELSE /\ rds' = CloseReader(rds, reader)
               /\ reader' = 0
               /\ pinOn' = 0 /\ authOn' = 0
               /\ IF thrown = "pcsc"
                  THEN /\ UNCHANGED <<pcsc, protocol, isConnected, connectPromiseResolved, ctxs>>
                       /\ calls' = [calls EXCEPT ![t] =
                                      Finish(NewCall("disconnect", <<>>),
                                             Fail("Failed to disconnect", <<>>))]
                  ELSE /\ pcsc' = 0 /\ protocol' = 0
                       /\ isConnected' = FALSE /\ connectPromiseResolved' = FALSE
                       /\ ctxs' = CloseCtx(ctxs, pcsc)
                       /\ calls' = [calls EXCEPT ![t] =
                                      Finish(NewCall("disconnect", <<>>), Ok(NoData))]
  /\ UNCHANGED <<token, genDone, app, relay>>

\* ------------------------------------------------------------- operations
session == <<pcsc, reader, protocol, isConnected, connectPromiseResolved, ctxs, rds>>

\* IPC yubikey:verifyPin
VerifyPin(t, E) ==
  /\ Invocable(t, E)
  /\ \E pin \in PinArgs(E) :
       calls' = [calls EXCEPT ![t] = verifyPinFrom(NewCall("verifyPin", pin), reader, protocol)]
  /\ UNCHANGED <<session, token, pinOn, authOn, genDone, app, relay>>

\* IPC yubikey:readPublicKey
ReadPublicKeyFromSlot(t, E) ==
  /\ Invocable(t, E)
  /\ calls' = [calls EXCEPT ![t] =
                 readPublicKeyFromSlotFrom(NewCall("readPublicKeyFromSlot", <<>>), reader, protocol)]
  /\ UNCHANGED <<session, token, pinOn, authOn, genDone, app, relay>>

\* IPC yubikey:generateKey
GenerateP256Key(t, E) ==
  /\ Invocable(t, E)
  /\ calls' = [calls EXCEPT ![t] =
                 generateP256KeyFrom(NewCall("generateP256Key", <<>>), reader, protocol)]
  /\ UNCHANGED <<session, token, pinOn, authOn, genDone, app, relay>>

\* IPC yubikey:signHash
SignHash(t, E) ==
  /\ Invocable(t, E)
  /\ \E hashHex \in HashArgs :
       calls' = [calls EXCEPT ![t] = signHashFrom(NewCall("signHash", hashHex), reader, protocol)]
  /\ UNCHANGED <<session, token, pinOn, authOn, genDone, app, relay>>

\* The callback of the raw exchange the call in slot t waits for, and the
\* code of the call that runs from it up to the next suspension.
RawCallback(t, E) ==
  /\ Quiet
  /\ calls[t].pc = "raw"
  /\ \E o \in RawOutcomes(calls[t].x, calls[t].step, calls[t].chal, E) :
     \E challenge \in (IF calls[t].step = "witness" THEN Challenges ELSE {<<>>}) :
     \E fs \in (IF calls[t].step = "generate" /\ E.faults THEN FsOutcomes ELSE {"exec"}) :
       LET c == calls[t]
           n == OnRaw([c.x EXCEPT !.rest = o.rest], o.res, reader, protocol)
           rd == c.x.rd
           released == /\ ~n.more /\ c.step = "generate"
                       /\ generateOutcome(n.ret).success
       IN /\ calls' = [calls EXCEPT ![t] =
                         IF n.more
                         THEN [c EXCEPT !.x = n.x, !.sent = @ \cup {"getresponse"}]
                         ELSE afterTransmit([c EXCEPT !.x = n.x], n.ret, challenge, fs,
                                            reader, protocol)]
          /\ token' = IF o.made THEN [token EXCEPT !.key = NextKey(@)] ELSE token
          /\ IF released
             THEN /\ rds' = CloseReader(rds, reader)
                  /\ ctxs' = CloseCtx(ctxs, pcsc)
                  /\ reader' = 0 /\ pcsc' = 0 /\ protocol' = 0
                  /\ isConnected' = FALSE /\ connectPromiseResolved' = FALSE
                  /\ pinOn' = 0 /\ authOn' = 0
             ELSE /\ UNCHANGED session
                  /\ pinOn' = IF ~n.more /\ c.step = "verify" /\ verifyPinOutcome(n.ret).success
                              THEN rd ELSE pinOn
                  /\ authOn' = IF ~n.more /\ c.step = "auth"
                                  /\ authOutcome(n.ret, c.chal).success
                               THEN rd ELSE authOn
  /\ GenHist
  /\ UNCHANGED <<app, relay>>

\* `await import('crypto')` completes: authenticateManagementKey goes on.
ImportDone(t) ==
  /\ Quiet
  /\ calls[t].pc = "import"
  /\ calls' = [calls EXCEPT ![t] = authenticateFrom(calls[t], reader, protocol)]
  /\ UNCHANGED <<session, token, pinOn, authOn, genDone, app, relay>>

\* The key a generateResult carries, as the token's key number.
KeyOf(g) == CHOOSE k \in {1, 2} : PointKey(k) = g.data

\* The callback of exec: the external tool stored the certificate, or failed.
YkmanDone(t, E) ==
  /\ Quiet
  /\ calls[t].pc = "ykman"
  /\ \E stored \in (IF E.faults THEN BOOLEAN ELSE {TRUE}) :
       token' = IF stored THEN [token EXCEPT !.cert = KeyOf(calls[t].gen)] ELSE token
  /\ calls' = [calls EXCEPT ![t].pc = "timer"]
  /\ UNCHANGED <<session, pinOn, authOn, genDone, app, relay>>

\* The 1 s timer of reconnectAfterYkman, then connect().
ReconnectTimer(t, E) ==
  /\ Quiet
  /\ calls[t].pc = "timer"
  /\ connect(t, calls[t], E)

\* The renderer receives the outcome of the call in slot t.
Return(t) ==
  /\ calls[t].pc = "done"
  /\ calls' = [calls EXCEPT ![t] = IdleCall]
  /\ UNCHANGED <<session, token, pinOn, authOn, genDone, app, relay>>

\* The manager driven by a renderer that awaits each call, in an environment
\* that may fail.
Next ==
  \/ \E t \in CallIds : Connect(t, Faulty)
  \/ \E t \in CallIds : Disconnect(t, Faulty)
  \/ \E t \in CallIds : VerifyPin(t, Faulty)
  \/ \E t \in CallIds : ReadPublicKeyFromSlot(t, Faulty)
  \/ \E t \in CallIds : GenerateP256Key(t, Faulty)
  \/ \E t \in CallIds : SignHash(t, Faulty)
  \/ \E t \in CallIds : RawCallback(t, Faulty)
  \/ \E t \in CallIds : ImportDone(t)
  \/ \E t \in CallIds : YkmanDone(t, Faulty)
  \/ \E t \in CallIds : ReconnectTimer(t, Faulty)
  \/ \E t \in CallIds : Return(t)
  \/ \E a \in CtxIds : ReaderDetected(a)
  \/ \E r \in ReaderIds : ReaderStatus(r)
  \/ \E r \in ReaderIds : ConnectCallback(r, Faulty)
  \/ \E r \in ReaderIds : SelectRaw(r, Faulty)
  \/ \E r \in ReaderIds : ReaderEnd(r)
  \/ \E a \in CtxIds : PcscError(a)
  \/ \E a \in CtxIds : ConnectTimeout(a)

Spec == Init /\ [][Next]_vars

\* The manager with invocations that overlap, in an environment in working
\* order: no exchange, connection, file or tool fails and no reader goes.
NextOverlap ==
  \/ \E t \in CallIds : Connect(t, FaultFree)
  \/ \E t \in CallIds : Disconnect(t, FaultFree)
  \/ \E t \in CallIds : VerifyPin(t, FaultFree)
  \/ \E t \in CallIds : ReadPublicKeyFromSlot(t, FaultFree)
  \/ \E t \in CallIds : GenerateP256Key(t, FaultFree)
  \/ \E t \in CallIds : SignHash(t, FaultFree)
  \/ \E t \in CallIds : RawCallback(t, FaultFree)
  \/ \E t \in CallIds : ImportDone(t)
  \/ \E t \in CallIds : YkmanDone(t, FaultFree)
  \/ \E t \in CallIds : ReconnectTimer(t, FaultFree)
  \/ \E t \in CallIds : Return(t)
  \/ \E a \in CtxIds : ReaderDetected(a)
  \/ \E r \in ReaderIds : ReaderStatus(r)
  \/ \E r \in ReaderIds : ConnectCallback(r, FaultFree)
  \/ \E r \in ReaderIds : SelectRaw(r, FaultFree)

SpecOverlap == Init /\ [][NextOverlap]_vars

\* The manager with calls awaited, no faults, and a token that uses up to
\* MaxRounds continuation rounds for a response.
NextTransmit ==
  \/ \E t \in CallIds : Connect(t, Chunked)
  \/ \E t \in CallIds : Disconnect(t, Chunked)
  \/ \E t \in CallIds : VerifyPin(t, Chunked)
  \/ \E t \in CallIds : ReadPublicKeyFromSlot(t, Chunked)
  \/ \E t \in CallIds : GenerateP256Key(t, Chunked)
  \/ \E t \in CallIds : SignHash(t, Chunked)
  \/ \E t \in CallIds : RawCallback(t, Chunked)
  \/ \E t \in CallIds : ImportDone(t)
  \/ \E t \in CallIds : YkmanDone(t, Chunked)
  \/ \E t \in CallIds : ReconnectTimer(t, Chunked)
  \/ \E t \in CallIds : Return(t)
  \/ \E a \in CtxIds : ReaderDetected(a)
  \/ \E r \in ReaderIds : ReaderStatus(r)
  \/ \E r \in ReaderIds : ConnectCallback(r, Chunked)
  \/ \E r \in ReaderIds : SelectRaw(r, Chunked)

SpecTransmit == Init /\ [][NextTransmit]_vars

\* verifyPin and readPublicKeyFromSlot on an established session, the token
\* answering VERIFY and GET DATA with any of the 65536 status words. The
\* session is the one connect() leaves after its first success.
InitStatus ==
  /\ pcsc = 1 /\ reader = 1 /\ protocol = SCARD_PROTOCOL_T1
  /\ isConnected = TRUE /\ connectPromiseResolved = TRUE
  /\ app = InitialApp /\ relay = InitialRelay
  /\ ctxs = [c \in CtxIds |->
               IF c = 1 THEN [st |-> "open", timer |-> FALSE, settled |-> TRUE, nf |-> FALSE] ELSE NoCtx]
  /\ rds = [r \in ReaderIds |->
              IF r = 1 THEN [NoReader EXCEPT !.ctx = 1, !.st = "live", !.card = TRUE, !.piv = TRUE]
              ELSE NoReader]
  /\ calls = [t \in CallIds |-> IdleCall]
  /\ token \in InitialTokens
  /\ pinOn = 0 /\ authOn = 0 /\ genDone = FALSE

NextStatus ==
  \/ \E t \in CallIds : VerifyPin(t, AnyStatus)
  \/ \E t \in CallIds : ReadPublicKeyFromSlot(t, AnyStatus)
  \/ \E t \in CallIds : RawCallback(t, AnyStatus)
  \/ \E t \in CallIds : Return(t)

SpecStatus == InitStatus /\ [][NextStatus]_vars

\* The manager with calls awaited and no faults, the token answering with
\* bodies that exercise the response parsers.
NextParse ==
  \/ \E t \in CallIds : Connect(t, Probing)
  \/ \E t \in CallIds : Disconnect(t, Probing)
  \/ \E t \in CallIds : VerifyPin(t, Probing)
  \/ \E t \in CallIds : ReadPublicKeyFromSlot(t, Probing)
  \/ \E t \in CallIds : GenerateP256Key(t, Probing)
  \/ \E t \in CallIds : SignHash(t, Probing)
  \/ \E t \in CallIds : RawCallback(t, Probing)
  \/ \E t \in CallIds : ImportDone(t)
  \/ \E t \in CallIds : YkmanDone(t, Probing)
  \/ \E t \in CallIds : ReconnectTimer(t, Probing)
  \/ \E t \in CallIds : Return(t)
  \/ \E a \in CtxIds : ReaderDetected(a)
  \/ \E r \in ReaderIds : ReaderStatus(r)
  \/ \E r \in ReaderIds : ConnectCallback(r, Probing)
  \/ \E r \in ReaderIds : SelectRaw(r, Probing)

SpecParse == Init /\ [][NextParse]_vars

\* Connecting and disconnecting with calls awaited, where the pcsc.close()
\* of connect()'s cleanup may throw.
NextClose ==
  \/ \E t \in CallIds : Connect(t, CloseFaulty)
  \/ \E t \in CallIds : Disconnect(t, CloseFaulty)
  \/ \E t \in CallIds : Return(t)
  \/ \E a \in CtxIds : ReaderDetected(a)
  \/ \E r \in ReaderIds : ReaderStatus(r)
  \/ \E r \in ReaderIds : ConnectCallback(r, CloseFaulty)
  \/ \E r \in ReaderIds : SelectRaw(r, CloseFaulty)
  \/ \E r \in ReaderIds : ReaderEnd(r)
  \/ \E a \in CtxIds : PcscError(a)
  \/ \E a \in CtxIds : ConnectTimeout(a)

SpecClose == Init /\ [][NextClose]_vars

\* Connecting and generating a key with nothing failing, every call awaited.
NextLive ==
  \/ \E t \in CallIds : Connect(t, Working)
  \/ \E t \in CallIds : GenerateP256Key(t, Working)
  \/ \E t \in CallIds : RawCallback(t, Working)
  \/ \E t \in CallIds : ImportDone(t)
  \/ \E t \in CallIds : YkmanDone(t, Working)
  \/ \E t \in CallIds : ReconnectTimer(t, Working)
  \/ \E t \in CallIds : Return(t)
  \/ \E a \in CtxIds : ReaderDetected(a)
  \/ \E r \in ReaderIds : ReaderStatus(r)
  \/ \E r \in ReaderIds : ConnectCallback(r, Working)
  \/ \E r \in ReaderIds : SelectRaw(r, Working)
  \/ \E r \in ReaderIds : ReaderEnd(r)
  \/ \E a \in CtxIds : ConnectTimeout(a)

\* The call in slot t waits for the callback of a raw exchange, which can
\* run: RawCallback(t, E) is enabled in exactly these states, an exchange
\* always having an outcome.
RawPending(t) == Quiet /\ calls[t].pc = "raw"

\* Timers fire, and the callbacks of what the manager started (a card
\* connection, a raw exchange, the import, the external tool) and the reply
\* to the renderer are delivered. Whether a reader appears, a card is
\* present in it, or it is removed is up to the user.
FairDelivery ==
  /\ \A a \in CtxIds : WF_vars(ConnectTimeout(a))
  /\ \A r \in ReaderIds : WF_vars(ConnectCallback(r, Working))
  /\ \A r \in ReaderIds : WF_vars(SelectRaw(r, Working))
  /\ \A t \in CallIds : []<>(~RawPending(t)) \/ []<><<RawCallback(t, Working)>>_vars
  /\ \A t \in CallIds : WF_vars(ImportDone(t))
  /\ \A t \in CallIds : WF_vars(YkmanDone(t, Working))
  /\ \A t \in CallIds : WF_vars(ReconnectTimer(t, Working))
  /\ \A t \in CallIds : WF_vars(Return(t))

SpecLive == Init /\ [][NextLive]_vars /\ FairDelivery

\* ---------------------------------------------------- renderer: crypto.ts
\* Strings are sequences of character codes: "0" is 48, "a" is 97, "x" 120.
\* A hex string held as digit values, as the string of its characters.
HexChars(hex) == [i \in 1..Len(hex) |-> hexChar(hex[i])]

\* str.padStart(64, '0')
padStart64(str) == IF Len(str) >= 64 THEN str ELSE Fill(64 - Len(str), 48) \o str

\* str.toLowerCase() / the upper-case form of one character.
toLowerCase(str) == [i \in 1..Len(str) |-> IF str[i] >= 65 /\ str[i] <= 90 THEN str[i] + 32 ELSE str[i]]
upperChar(c) == IF c >= 97 /\ c <= 122 THEN c - 32 ELSE c

\* keccak256 is stood for by a fixed function from byte strings to 32-byte
\* digests: digest byte i is made of the bytes at positions i and i + 32
\* (counted round the string) and of the length.
digest(bytes) ==
  LET n == Len(bytes)
      B(k) == IF n = 0 THEN 0 ELSE bytes[((k - 1) % n) + 1]
  IN [i \in 1..32 |-> (B(i) * 5 + B(i + 32) * 3 + n * 17 + i * 29) % 256]

\* viem keccak256(hex): "0x" and the 64 hex digits of the digest of the bytes.
keccak256(hex) == <<48, 120>> \o HexChars(ToHex(digest(FromHexStr(Strip0x(hex)))))

\* viem getAddress(address): "0x" and the 40 digits with the letters put in
\* upper case where the digest of the lower-case digits has a high nibble.
getAddress(address) ==
  LET digits == toLowerCase(SubSeq(address, 3, Len(address)))
      marks == ToHex(digest(digits))
  IN <<48, 120>> \o [i \in 1..Len(digits) |->
                       IF marks[i] >= 8 THEN upperChar(digits[i]) ELSE digits[i]]

\* hash.slice(-40)
sliceLast40(str) == SubSeq(str, Max(1, Len(str) - 39), Len(str))

deriveAddress(x, y) ==
  LET xHex == padStart64(Strip0x(x))
      yHex == padStart64(Strip0x(y))
      packed == <<48, 120>> \o xHex \o yHex
      hash == keccak256(packed)
  IN getAddress(<<48, 120>> \o sliceLast40(hash))

\* formatSafeSignature with the owner address taken from the hash of the
\* coordinates as given, not padded: a variant the layout property must
\* tell apart.
formatSafeSignatureUnpadded(r, s, x, y) ==
  LET xHex == padStart64(Strip0x(x))
      yHex == padStart64(Strip0x(y))
      packed == <<48, 120>> \o Strip0x(x) \o Strip0x(y)
      hash == keccak256(packed)
      ownerAddress == getAddress(<<48, 120>> \o sliceLast40(hash))
      rHex == padStart64(Strip0x(r))
      sHex == padStart64(Strip0x(s))
      ownerHex == toLowerCase(padStart64(SubSeq(ownerAddress, 3, Len(ownerAddress))))
      offsetHex == Fill(62, 48) \o <<52, 49>>
      vHex == <<48, 50>>
  IN <<48, 120>> \o ownerHex \o offsetHex \o vHex \o rHex \o sHex \o xHex \o yHex

formatSafeSignature(r, s, x, y) ==
  LET xHex == padStart64(Strip0x(x))
      yHex == padStart64(Strip0x(y))
      packed == <<48, 120>> \o xHex \o yHex
      hash == keccak256(packed)
      ownerAddress == getAddress(<<48, 120>> \o sliceLast40(hash))
      rHex == padStart64(Strip0x(r))
      sHex == padStart64(Strip0x(s))
      ownerHex == toLowerCase(padStart64(SubSeq(ownerAddress, 3, Len(ownerAddress))))
      offsetHex == Fill(62, 48) \o <<52, 49>>
      vHex == <<48, 50>>
  IN <<48, 120>> \o ownerHex \o offsetHex \o vHex \o rHex \o sHex \o xHex \o yHex

\* The strings the renderer passes: r and s as signHash returns them, x and
\* y as the key parsers return them (64 digits, or fewer from a blob cut
\* short), each also with a 0x prefix, short, and empty.
With0x(str) == <<48, 120>> \o str
SigInputs ==
  {HexChars(ToHex(Fill(32, 17))), With0x(HexChars(ToHex(Fill(32, 171)))),
   HexChars(ToHex(Fill(31, 0) \o <<1>>))}
CoordInputs ==
  {HexChars(ToHex(Fill(32, 161))), With0x(HexChars(ToHex(Fill(32, 177)))),
   HexChars(ToHex(Fill(31, 190))), With0x(<<49, 102>>), <<>>}

\* The renderer formats a signature / derives an address; the slot holds the
\* inputs and the string returned.
FormatSafeSignature(t) ==
  /\ Quiet /\ Free(t)
  /\ \E r \in SigInputs : \E s \in SigInputs : \E x \in CoordInputs : \E y \in CoordInputs :
       calls' = [calls EXCEPT ![t] =
                   Finish(NewCall("formatSafeSignature", <<r, s, x, y>>),
                          Ok(formatSafeSignature(r, s, x, y)))]
  /\ UNCHANGED <<session, token, pinOn, authOn, genDone, app, relay>>

DeriveAddress(t) ==
  /\ Quiet /\ Free(t)
  /\ \E x \in CoordInputs : \E y \in CoordInputs :
       calls' = [calls EXCEPT ![t] =
                   Finish(NewCall("deriveAddress", <<x, y>>), Ok(deriveAddress(x, y)))]
  /\ UNCHANGED <<session, token, pinOn, authOn, genDone, app, relay>>

NextFormat ==
  \/ \E t \in CallIds : FormatSafeSignature(t)
  \/ \E t \in CallIds : DeriveAddress(t)
  \/ \E t \in CallIds : Return(t)

SpecFormat == Init /\ [][NextFormat]_vars

\* ------------------------------------------------- renderer: the wizard
\* The key in slot 9A of the YubiKey in use, and the transactions the user
\* may enter (recipient, amount and the Safe's nonce).
CardKey == 1
Txs == 1..MaxTx

\* A call a step component has in flight: the handler that made it (op),
\* whether the component that made it is still mounted (live), and the
\* props and inputs the handler's closure holds.
Request(op) ==
  [op |-> op, live |-> TRUE, safe |-> 0, tx |-> 0, hash |-> NoHash, key |-> 0,
   sig |-> NoSafeSignature]

\* setState((prev) => ({ ...prev, ...updates }))
updateState(prev, updates) ==
  [f \in DOMAIN prev |-> IF f \in DOMAIN updates THEN updates[f] ELSE prev[f]]

\* The wizard after AppState became next with the calls in fly in flight:
\* renderStep keeps the component of an unchanged step and mounts a new one,
\* unmounting the old, when the step changed.
Rendered(a, next, fly) ==
  IF next.currentStep = a.state.currentStep
  THEN [a EXCEPT !.state = next, !.flying = fly]
  ELSE [state |-> next, local |-> NoLocal,
        flying |-> {[q EXCEPT !.live = FALSE] : q \in fly}]

\* A setter of the component that made call q: it acts on a mounted
\* component only.
SetLocal(a, q, field, value) ==
  IF q.live THEN [a EXCEPT !.local[field] = value] ELSE a

CanStart == Cardinality(app.flying) < MaxFlying
Step == app.state.currentStep
Others(q) == app.flying \ {q}
Unsent(a, q) == [a EXCEPT !.flying = @ \ {q}]

wizardRest ==
  <<pcsc, reader, protocol, isConnected, connectPromiseResolved, ctxs, rds, calls,
    token, pinOn, authOn, genDone, relay>>

\* calculateSafeTxHash(safeAddress, transaction)
calculateSafeTxHash(safe, tx) == [safe |-> safe, tx |-> tx]

\* The Safe accepts a signature made over the hash of the transaction it is
\* asked to execute, by the key of its owner.
SafeAccepts(safe, tx, sig) ==
  /\ safe # 0 /\ tx # 0
  /\ sig.hash = calculateSafeTxHash(safe, tx) /\ sig.key = safe

\* StepConnect.handleConnect up to its await.
HandleConnect ==
  /\ Step = "connect" /\ ~app.local.connecting /\ CanStart
  /\ app' = [app EXCEPT !.local.connecting = TRUE,
                        !.flying = @ \cup {Request("connect")}]
  /\ UNCHANGED wizardRest

\* StepConnect.handleConnect from its await on.
ConnectReturned(q) ==
  /\ q \in app.flying /\ q.op = "connect"
  /\ \E ok \in BOOLEAN :
       LET a == SetLocal(Unsent(app, q), q, "connecting", FALSE) IN
       app' = IF ok
              THEN Rendered(a, updateState(a.state, [readerName |-> 1,
                                                      currentStep |-> "generateKey"]),
                            a.flying)
              ELSE a
  /\ UNCHANGED wizardRest

\* StepGenerateKey: handleVerifyPin or handleGenerateKey has put a key into
\* the component's publicKey and ownerAddress.
KeyFound ==
  /\ Step = "generateKey" /\ app.local.key = 0
  /\ app' = [app EXCEPT !.local.key = CardKey]
  /\ UNCHANGED wizardRest

\* StepGenerateKey.handleContinue
KeyContinue ==
  /\ Step = "generateKey" /\ app.local.key # 0
  /\ app' = Rendered(app, updateState(app.state,
                            [publicKey |-> app.local.key, ownerAddress |-> app.local.key,
                             currentStep |-> "deploySafe"]), app.flying)
  /\ UNCHANGED wizardRest

\* StepDeploySafe: the effect that predicts the Safe address of ownerAddress
\* and asks whether it is deployed.
SafeChecked ==
  /\ Step = "deploySafe" /\ app.local.predicted = 0 /\ app.state.ownerAddress # 0
  /\ \E deployed \in BOOLEAN :
       app' = [app EXCEPT !.local.predicted = app.state.ownerAddress,
                          !.local.deployed = deployed]
  /\ UNCHANGED wizardRest

\* StepDeploySafe.handleDeploy, the relayer deploying the Safe.
HandleDeploy ==
  /\ Step = "deploySafe" /\ app.local.predicted # 0 /\ ~app.local.deployed
  /\ relay.status.configured /\ relay.privateKey # 0
  /\ app' = [app EXCEPT !.local.deployed = TRUE]
  /\ UNCHANGED wizardRest

\* StepDeploySafe.handleContinue
DeployContinue ==
  /\ Step = "deploySafe" /\ app.local.deployed /\ app.local.predicted # 0
  /\ app' = Rendered(app, updateState(app.state,
                            [safeAddress |-> app.local.predicted,
                             currentStep |-> "createTx"]), app.flying)
  /\ UNCHANGED wizardRest

\* StepCreateTx: the effect that fetches the Safe's nonce.
NonceFetched ==
  /\ Step = "createTx" /\ ~app.local.nonce /\ app.state.safeAddress # 0
  /\ app' = [app EXCEPT !.local.nonce = TRUE]
  /\ UNCHANGED wizardRest

\* StepCreateTx.handleCreateTransaction up to its await.
HandleCreateTransaction ==
  /\ Step = "createTx" /\ app.local.nonce /\ ~app.local.creating /\ CanStart
  /\ \E tx \in Txs :
       app' = [app EXCEPT !.local.creating = TRUE,
                          !.flying = @ \cup {[Request("create") EXCEPT
                                                !.safe = app.state.safeAddress, !.tx = tx]}]
  /\ UNCHANGED wizardRest

\* StepCreateTx.handleCreateTransaction from its await on.
TransactionCreated(q) ==
  /\ q \in app.flying /\ q.op = "create"
  /\ \E ok \in BOOLEAN :
       LET a == SetLocal(Unsent(app, q), q, "creating", FALSE) IN
       app' = IF ok
              THEN Rendered(a, updateState(a.state,
                                  [transaction |-> q.tx,
                                   safeTxHash |-> calculateSafeTxHash(q.safe, q.tx),
                                   currentStep |-> "sign"]), a.flying)
              ELSE a
  /\ UNCHANGED wizardRest

\* StepSign.handleSign up to its await, with the props of the component
\* that runs it.
Signing(a, hash, key, live) ==
  [a EXCEPT !.local.signing = IF live THEN TRUE ELSE @,
            !.flying = @ \cup {[Request("sign") EXCEPT !.hash = hash, !.key = key,
                                                       !.live = live]}]

HandleSign ==
  /\ Step = "sign" /\ ~app.local.signing /\ ~app.local.pinDialog /\ CanStart
  /\ app' = Signing(app, app.state.safeTxHash, app.state.publicKey, TRUE)
  /\ UNCHANGED wizardRest

\* StepSign.handleSign from its await on: a signature, the PIN asked for
\* again, or an error.
SignReturned(q) ==
  /\ q \in app.flying /\ q.op = "sign"
  /\ \E result \in {"signed", "pin", "error"} :
       LET a == SetLocal(Unsent(app, q), q, "signing", FALSE) IN
       app' = CASE result = "signed" ->
                     Rendered(a, updateState(a.state,
                                    [signature |-> [hash |-> q.hash, key |-> q.key],
                                     currentStep |-> "execute"]), a.flying)
                [] result = "pin" -> SetLocal(a, q, "pinDialog", TRUE)
                [] OTHER -> a
  /\ UNCHANGED wizardRest

\* StepSign.handlePinSubmit up to its await.
HandlePinSubmit ==
  /\ Step = "sign" /\ app.local.pinDialog /\ ~app.local.pinLoading /\ CanStart
  /\ app' = [app EXCEPT !.local.pinLoading = TRUE,
                        !.flying = @ \cup {[Request("verify") EXCEPT
                                              !.hash = app.state.safeTxHash,
                                              !.key = app.state.publicKey]}]
  /\ UNCHANGED wizardRest

\* StepSign.handlePinSubmit from its await on: handleSign() again once the
\* PIN is verified.
PinReturned(q) ==
  /\ q \in app.flying /\ q.op = "verify"
  /\ \E ok \in BOOLEAN :
       LET a == SetLocal(Unsent(app, q), q, "pinLoading", FALSE) IN
       app' = IF ok
              THEN Signing(SetLocal(a, q, "pinDialog", FALSE), q.hash, q.key, q.live)
              ELSE a
  /\ UNCHANGED wizardRest

\* StepSign.handlePinCancel
HandlePinCancel ==
  /\ Step = "sign" /\ app.local.pinDialog
  /\ app' = [app EXCEPT !.local.pinDialog = FALSE]
  /\ UNCHANGED wizardRest

\* StepExecute.handleExecute up to its await.
HandleExecute ==
  /\ Step = "execute" /\ app.local.txHash = 0 /\ ~app.local.executing
  /\ relay.status.configured /\ CanStart
  /\ app' = [app EXCEPT !.local.executing = TRUE,
                        !.flying = @ \cup {[Request("execute") EXCEPT
                                              !.safe = app.state.safeAddress,
                                              !.tx = app.state.transaction,
                                              !.sig = app.state.signature]}]
  /\ UNCHANGED wizardRest

\* StepExecute.handleExecute from its await on.
ExecuteReturned(q) ==
  /\ q \in app.flying /\ q.op = "execute"
  /\ \E ok \in (IF relay.privateKey # 0 /\ SafeAccepts(q.safe, q.tx, q.sig)
                THEN BOOLEAN ELSE {FALSE}) :
       LET a == SetLocal(Unsent(app, q), q, "executing", FALSE) IN
       app' = IF ok
              THEN Rendered(SetLocal(a, q, "txHash", q.tx),
                            updateState(a.state, [txHash |-> q.tx]), a.flying)
              ELSE a
  /\ UNCHANGED wizardRest

\* App.handleReset up to its await of disconnect().
HandleReset ==
  /\ Step = "execute" /\ app.local.txHash # 0 /\ CanStart
  /\ app' = [app EXCEPT !.flying = @ \cup {Request("reset")}]
  /\ UNCHANGED wizardRest

\* App.handleReset from its await on: setState(initialState).
ResetReturned(q) ==
  /\ q \in app.flying /\ q.op = "reset"
  /\ app' = Rendered(Unsent(app, q), initialState, Others(q))
  /\ UNCHANGED wizardRest

\* The Back button of the step on screen.
BackTo(step) ==
  CASE step = "generateKey" -> "connect"
    [] step = "deploySafe" -> "generateKey"
    [] step = "createTx" -> "deploySafe"
    [] step = "sign" -> "createTx"

Back ==
  /\ Step \in {"generateKey", "deploySafe", "createTx", "sign"}
  /\ app' = Rendered(app, updateState(app.state, [currentStep |-> BackTo(Step)]),
                     app.flying)
  /\ UNCHANGED wizardRest

\* The wizard with a relayer key saved.
ConfiguredRelay ==
  [InitialRelay EXCEPT !.privateKey = 1, !.walletClient = TRUE,
                       !.status = [configured |-> TRUE, address |-> 1, balance |-> 1]]

InitWizard ==
  /\ app = InitialApp /\ relay = ConfiguredRelay
  /\ pcsc = 0 /\ reader = 0 /\ protocol = 0
  /\ isConnected = FALSE /\ connectPromiseResolved = FALSE
  /\ ctxs = [c \in CtxIds |-> NoCtx]
  /\ rds = [r \in ReaderIds |-> NoReader]
  /\ calls = [t \in CallIds |-> IdleCall]
  /\ token = [key |-> 1, cert |-> 1]
  /\ pinOn = 0 /\ authOn = 0 /\ genDone = FALSE

NextWizard ==
  \/ HandleConnect
  \/ \E q \in app.flying : ConnectReturned(q)
  \/ KeyFound
  \/ KeyContinue
  \/ SafeChecked
  \/ HandleDeploy
  \/ DeployContinue
  \/ NonceFetched
  \/ HandleCreateTransaction
  \/ \E q \in app.flying : TransactionCreated(q)
  \/ HandleSign
  \/ \E q \in app.flying : SignReturned(q)
  \/ HandlePinSubmit
  \/ \E q \in app.flying : PinReturned(q)
  \/ HandlePinCancel
  \/ HandleExecute
  \/ \E q \in app.flying : ExecuteReturned(q)
  \/ HandleReset
  \/ \E q \in app.flying : ResetReturned(q)
  \/ Back

SpecWizard == InitWizard /\ [][NextWizard]_vars

\* ------------------------------------------------ renderer: the relayer
\* Private keys the user may type into the settings panel: two valid ones
\* and one privateKeyToAccount rejects.
InvalidKey == 3
TypedKeys == {1, 2, InvalidKey}

\* An IPC call of the settings panel or of a step component: at "main" until
\* the main process has handled it, then at "renderer" with the result;
\* status is the relayerStatus the caller's closure holds.
RelayCall(op) ==
  [op |-> op, at |-> "main", key |-> 0, ok |-> FALSE, address |-> 0,
   status |-> NoRelayer]

RelayCanStart == Cardinality(relay.flying) < MaxFlying
Replaced(q, r) == (relay.flying \ {q}) \cup r

relayerRest ==
  <<pcsc, reader, protocol, isConnected, connectPromiseResolved, ctxs, rds, calls,
    token, pinOn, authOn, genDone, app>>

\* SettingsPanel.handleConfigureRelayer up to its first await.
HandleConfigureRelayer ==
  /\ ~relay.status.configured /\ ~relay.loading /\ RelayCanStart
  /\ \E k \in TypedKeys :
       relay' = [relay EXCEPT !.loading = TRUE, !.cleared = FALSE,
                   !.flying = @ \cup {[RelayCall("setPrivateKey") EXCEPT !.key = k]}]
  /\ UNCHANGED relayerRest

\* EvmConnector.setPrivateKey
setPrivateKey(q) ==
  /\ q \in relay.flying /\ q.op = "setPrivateKey" /\ q.at = "main"
  /\ relay' =
       IF q.key = InvalidKey
       THEN [relay EXCEPT !.flying = Replaced(q, {[q EXCEPT !.at = "renderer"]})]
       ELSE [relay EXCEPT !.privateKey = q.key, !.walletClient = TRUE,
               !.flying = Replaced(q, {[q EXCEPT !.at = "renderer", !.ok = TRUE,
                                                 !.address = q.key]})]
  /\ UNCHANGED relayerRest

\* SettingsPanel.handleConfigureRelayer from the answer of setPrivateKey to
\* its second await.
SetKeyReturned(q) ==
  /\ q \in relay.flying /\ q.op = "setPrivateKey" /\ q.at = "renderer"
  /\ relay' =
       IF q.ok
       THEN [relay EXCEPT !.flying = Replaced(q, {[RelayCall("getBalance") EXCEPT
                                                     !.address = q.address]})]
       ELSE [relay EXCEPT !.loading = FALSE, !.flying = Replaced(q, {})]
  /\ UNCHANGED relayerRest

\* EvmConnector.getBalance, for either caller.
getBalance(q) ==
  /\ q \in relay.flying /\ q.op \in {"getBalance", "refresh"} /\ q.at = "main"
  /\ \E ok \in (IF relay.privateKey # 0 THEN BOOLEAN ELSE {FALSE}) :
       relay' = [relay EXCEPT !.flying = Replaced(q, {[q EXCEPT !.at = "renderer",
                                                               !.ok = ok]})]
  /\ UNCHANGED relayerRest

\* SettingsPanel.handleConfigureRelayer from the answer of getBalance on.
BalanceReturned(q) ==
  /\ q \in relay.flying /\ q.op = "getBalance" /\ q.at = "renderer"
  /\ relay' = [relay EXCEPT
                 !.status = [configured |-> TRUE, address |-> q.address,
                             balance |-> IF q.ok THEN 1 ELSE 0],
                 !.loading = FALSE, !.flying = Replaced(q, {})]
  /\ UNCHANGED relayerRest

\* SettingsPanel.handleClearRelayer
HandleClearRelayer ==
  /\ relay.status.configured
  /\ relay' = [relay EXCEPT !.status = NoRelayer, !.cleared = TRUE, !.last = ""]
  /\ UNCHANGED relayerRest

\* SettingsPanel.refreshBalance up to its await.
RefreshBalance ==
  /\ relay.status.configured /\ RelayCanStart
  /\ relay' = [relay EXCEPT !.flying = @ \cup {[RelayCall("refresh") EXCEPT
                                                   !.status = relay.status]}]
  /\ UNCHANGED relayerRest

\* SettingsPanel.refreshBalance from its await on.
RefreshReturned(q) ==
  /\ q \in relay.flying /\ q.op = "refresh" /\ q.at = "renderer"
  /\ relay' = [relay EXCEPT
                 !.status = IF q.ok THEN [q.status EXCEPT !.balance = 1] ELSE @,
                 !.cleared = IF q.ok THEN FALSE ELSE @,
                 !.flying = Replaced(q, {})]
  /\ UNCHANGED relayerRest

\* StepDeploySafe.handleDeploy and StepExecute.handleExecute up to their
\* call of the relayer.
RelayerOps == {"deploySafe", "executeTransaction"}

InvokeRelayer ==
  /\ relay.status.configured /\ RelayCanStart
  /\ \E op \in RelayerOps :
       relay' = [relay EXCEPT !.flying = @ \cup {RelayCall(op)}]
  /\ UNCHANGED relayerRest

\* EvmConnector.deploySafe and EvmConnector.executeTransaction: the check of
\* the key, then the transaction sent.
RelayerHandles(q) ==
  /\ q \in relay.flying /\ q.op \in RelayerOps
  /\ relay' = [relay EXCEPT
                 !.last = IF ~relay.walletClient \/ relay.privateKey = 0
                          THEN "Private key not configured" ELSE "submitted",
                 !.flying = Replaced(q, {})]
  /\ UNCHANGED relayerRest

NextRelayer ==
  \/ HandleConfigureRelayer
  \/ \E q \in relay.flying : setPrivateKey(q)
  \/ \E q \in relay.flying : SetKeyReturned(q)
  \/ \E q \in relay.flying : getBalance(q)
  \/ \E q \in relay.flying : BalanceReturned(q)
  \/ HandleClearRelayer
  \/ RefreshBalance
  \/ \E q \in relay.flying : RefreshReturned(q)
  \/ InvokeRelayer
  \/ \E q \in relay.flying : RelayerHandles(q)

SpecRelayer == Init /\ [][NextRelayer]_vars

\* ============================================================ properties
\* The call in slot t hands the command of `step` to the reader in this step.
Transmits(t, step) == step \in calls'[t].sent /\ step \notin calls[t].sent

\* The call in slot t starts a raw exchange in this step.
StartsExchange(t) ==
  /\ calls'[t].pc = "raw"
  /\ calls[t].pc # "raw" \/ calls'[t].x # calls[t].x

\* A call has an APDU chain in progress: a raw exchange outstanding, or it is
\* between two exchanges of its chain.
InChain(c) == c.pc \in {"raw", "import"}

\* C1: operations on the session are serialized: no raw exchange of one
\* invocation starts while another invocation has an exchange outstanding or
\* is between the exchanges of its chain.
C1_Serialized ==
  [][\A t \in CallIds : StartsExchange(t) =>
        \A u \in CallIds \ {t} : ~InChain(calls[u])]_vars

\* C2: signHash hands the sign command to the reader only when verifyPin has
\* returned 90 00 on the card connection the session is on, with no
\* disconnect or reconnect since.
C2_SignOnlyAfterPin ==
  [][\A t \in CallIds : Transmits(t, "sign") => (pinOn # 0 /\ pinOn = reader)]_vars

\* C3: every GENERATE sent over a card connection follows a management-key
\* handshake that completed successfully on that same card connection, with
\* no disconnect or reconnect in between.
C3_GenerateAfterHandshake ==
  [][\A t \in CallIds : (Transmits(t, "generate") /\ calls'[t].x.link) =>
        (authOn' # 0 /\ authOn' = calls'[t].x.rd)]_vars

\* C5: once generateP256Key has returned a generated key, no call hands
\* GENERATE for slot 9A to a reader again.
C5_NoSecondGenerate ==
  [][genDone => \A t \in CallIds : ~Transmits(t, "generate")]_vars

\* A state in which a call hands GENERATE to a reader whose card connection
\* carried the handshake.
C3_Reached ==
  \E t \in CallIds :
    /\ calls[t].pc = "raw" /\ calls[t].step = "generate"
    /\ calls[t].x.link /\ authOn = calls[t].x.rd

\* --- C4
\* The handshake's second command was answered 90 00 with a 16-byte response
\* block (7C 12 82 10 [block]); the block.
AnsweredBlock(c) ==
  /\ c.au.success /\ Len(c.au.data) = 22
  /\ SubSeq(c.au.data, 1, 4) = <<124, 18, 130, 16>>
  /\ SubSeq(c.au.data, 21, 22) = SW_OK
CardBlock(c) == SubSeq(c.au.data, 5, 20)
ExpectedBlock(c) == aesEncrypt(mgmtKey, c.chal)

\* The call got past the handshake.
PastHandshake(c) ==
  /\ c.op = "generateP256Key"
  /\ "generate" \in c.sent \/ c.pc \in {"ykman", "timer", "connect"}

\* C4: the handshake succeeds only if the card's 16-byte response equals the
\* AES encryption of the challenge under the management key; a response
\* that differs ends the call with the verification failure, no GENERATE
\* handed to the reader and no certificate store started.
C4_HandshakeVerified ==
  \A t \in CallIds :
    LET c == calls[t] IN
    /\ PastHandshake(c) => (AnsweredBlock(c) /\ CardBlock(c) = ExpectedBlock(c))
    /\ (AnsweredBlock(c) /\ CardBlock(c) # ExpectedBlock(c)) =>
         /\ c.pc = "done"
         /\ c.res = Fail("Card response verification failed", <<>>)
         /\ "generate" \notin c.sent

\* A call ended by a response block that differs from the expected one.
C4_Mismatch ==
  \E t \in CallIds :
    /\ calls[t].pc = "done" /\ AnsweredBlock(calls[t])
    /\ CardBlock(calls[t]) # ExpectedBlock(calls[t])

\* --- C6
\* The GET DATA of the call returned, ending with the status word sw.
GetDataEnded(c, sw) == c.gd.success /\ SliceLast2(c.gd.data) = sw

\* The call went on to the handshake.
Proceeded(c) == c.pc = "import" \/ c.sent \cap {"witness", "auth", "generate"} # {}

\* C6: generateP256Key starts the handshake and GENERATE only when its GET
\* DATA ended with 6A 82; when the read succeeded or failed in another way
\* it returns what the read returned, having sent nothing but the read.
C6_GenerateOnlyOnEmptySlot ==
  \A t \in CallIds :
    LET c == calls[t] IN
    c.op = "generateP256Key" =>
      /\ Proceeded(c) => GetDataEnded(c, SW_NOT_FOUND)
      /\ (c.pc = "done" /\ ~GetDataEnded(c, SW_NOT_FOUND)) =>
           /\ c.res = readPublicKeyOutcome(c.gd)
           /\ c.sent \subseteq {"getdata", "getresponse"}

\* generateP256Key returned the failure of a read the card refused.
C6_ReadRefused ==
  \E t \in CallIds :
    /\ calls[t].op = "generateP256Key" /\ calls[t].pc = "done"
    /\ GetDataEnded(calls[t], SW_SECURITY)

\* --- C7
\* A raw response that announces more data: it ends 61 xx.
EndsMore(raw) == Len(raw) >= 2 /\ raw[Len(raw) - 1] = 97

\* The payloads of all raw responses but the last, then the last as it is.
RECURSIVE Assembled(_, _)
Assembled(raws, i) ==
  IF i = Len(raws) THEN raws[i]
  ELSE SubSeq(raws[i], 1, Len(raws[i]) - 2) \o Assembled(raws, i + 1)

\* C7: when the card answers a command with k responses ending 61 xx and
\* then one that does not, transmit sends exactly k GET RESPONSE commands
\* 00 C0 00 00 Le, each Le the second status byte of the response just
\* received, and returns the payloads in order followed by the last
\* response's status word.
C7_Continuation ==
  \A t \in CallIds :
    LET raws == calls[t].last.raws
        gets == calls[t].last.gets
        n == Len(raws)
    IN (/\ n >= 1
        /\ \A i \in 1..(n - 1) : EndsMore(raws[i])
        /\ Len(raws[n]) >= 2 /\ ~EndsMore(raws[n])) =>
         /\ Len(gets) = n - 1
         /\ \A i \in 1..(n - 1) : gets[i] = <<0, 192, 0, 0, raws[i][Len(raws[i])]>>
         /\ calls[t].last.ret = TxOk(Assembled(raws, 1))

\* A transmit that returned after MaxRounds continuation rounds.
C7_LongChain ==
  \E t \in CallIds :
    /\ Len(calls[t].last.raws) = MaxRounds + 1
    /\ calls[t].last.ret.success

\* --- C8, C10
\* The operation op is invoked in slot t in this step.
Invoked(t, op) == calls[t].pc = "idle" /\ calls'[t].op = op

CardOps == {"verifyPin", "readPublicKeyFromSlot", "generateP256Key", "signHash"}

\* C8: invoked with no reader or no protocol, verifyPin,
\* readPublicKeyFromSlot, generateP256Key and signHash of a 32-byte hash
\* return 'Not connected', hand nothing to a reader and leave the reader,
\* the protocol and the flags as they were.
C8_NotConnected ==
  [][\A t \in CallIds : \A op \in CardOps :
       (/\ Invoked(t, op)
        /\ reader = 0 \/ protocol = 0
        /\ op = "signHash" => Len(hashOf(calls'[t].arg)) = 32) =>
         /\ calls'[t].pc = "done" /\ ~calls'[t].threw
         /\ calls'[t].res = Fail("Not connected", <<>>)
         /\ calls'[t].sent = {}
         /\ UNCHANGED <<pcsc, reader, protocol, isConnected, connectPromiseResolved>>]_vars

\* An operation answered 'Not connected' while a reader is held and the
\* protocol is not set.
C8_NoProtocol ==
  \E t \in CallIds :
    /\ calls[t].op \in CardOps /\ calls[t].pc = "done"
    /\ calls[t].res = Fail("Not connected", <<>>) /\ calls[t].sent = {}
    /\ reader # 0 /\ protocol = 0

\* C10: signHash rejects every input that does not decode to 32 bytes with
\* the length error, whatever the bytes and the session, hands nothing to a
\* reader and changes no state.
C10_RejectsWrongLength ==
  [][\A t \in CallIds :
       (Invoked(t, "signHash") /\ Len(hashOf(calls'[t].arg)) # 32) =>
         /\ calls'[t].pc = "done" /\ ~calls'[t].threw
         /\ calls'[t].res = Fail("Hash must be 32 bytes, got {n}",
                                 <<Len(hashOf(calls'[t].arg))>>)
         /\ calls'[t].sent = {}
         /\ UNCHANGED <<session, token, pinOn, authOn, genDone, app, relay>>]_vars

\* A 33-byte hash rejected on an established session.
C10_LongHashRejected ==
  \E t \in CallIds :
    /\ calls[t].op = "signHash" /\ calls[t].pc = "done"
    /\ Len(hashOf(calls[t].arg)) = 33
    /\ calls[t].res = Fail("Hash must be 32 bytes, got {n}", <<33>>)
    /\ reader # 0 /\ protocol # 0 /\ isConnected

\* --- C9
\* C9: verifyPin maps the status word of the VERIFY response as follows:
\* 90 00 success; 63 Cx wrong PIN with x attempts remaining; 69 83 blocked;
\* any other status word a failure that carries it; success for 90 00 only.
C9_VerifyStatusWords ==
  \A t \in CallIds :
    LET c == calls[t]
        d == c.last.ret.data
    IN (/\ c.op = "verifyPin" /\ c.pc = "done"
        /\ c.last.ret.success /\ Len(d) = 2) =>
         LET sw1 == d[1]
             sw2 == d[2]
             ok == sw1 = 144 /\ sw2 = 0
             wrong == sw1 = 99 /\ sw2 \in 192..207
             blocked == sw1 = 105 /\ sw2 = 131
         IN /\ ok => c.res = Ok(NoData)
            /\ wrong => c.res = Fail("Wrong PIN. {remaining} attempts remaining.",
                                     <<sw2 - 192>>)
            /\ blocked => c.res = Fail("PIN is blocked.", <<>>)
            /\ ~(ok \/ wrong \/ blocked) =>
                 c.res = Fail("PIN verification failed: SW=",
                              <<sw1 \div 16, sw1 % 16, sw2 \div 16, sw2 % 16>>)
            /\ c.res.success => ok

\* verifyPin answered 63 C5: wrong PIN, 5 attempts remaining.
C9_WrongPinFive ==
  \E t \in CallIds :
    /\ calls[t].op = "verifyPin" /\ calls[t].pc = "done"
    /\ calls[t].last.ret = TxOk(<<99, 197>>)
    /\ calls[t].res.detail = <<5>>

RECURSIVE carryInto(_, _, _)
carryInto(a, b, i) ==
  IF i >= Len(a) THEN 0
  ELSE IF a[i + 1] + b[i + 1] + carryInto(a, b, i + 1) >= 256 THEN 1 ELSE 0

\* a + b = c for values of the same number of bytes, without overflow.
SumIs(a, b, c) ==
  /\ carryInto(a, b, 0) = 0
  /\ \A i \in 1..Len(a) : c[i] = (a[i] + b[i] + carryInto(a, b, i)) % 256

\* C12: for a DER signature with 0 < s < n, signHash returns s' with
\* s' + s = n when s > n/2 and s' = s otherwise, so that s' <= n/2; parsing
\* a signature that holds s' returns s' again; r is returned as it came.
C12_LowS ==
  /\ SumIs(HalfOrder, HalfOrder, [CurveOrder EXCEPT ![32] = 80])
  /\ \A t \in CallIds : \A r \in ProbeR : \A s \in ProbeS :
       (/\ calls[t].op = "signHash" /\ calls[t].pc = "done"
        /\ calls[t].last.ret = TxOk(SignReply(DerSig(MinInt(r), MinInt(s))))) =>
         /\ calls[t].res.success
         /\ calls[t].res.data.r = ToHex(r)
         /\ LET s2 == FromHex(calls[t].res.data.s)
                again == parseDerSignature(DerSig(MinInt(r), MinInt(s2)))
            IN /\ Len(s2) = 32
               /\ IF BigGt(s, HalfOrder) THEN SumIs(s2, s, CurveOrder) ELSE s2 = s
               /\ ~BigGt(s2, HalfOrder)
               /\ again.ok /\ again.s = s2 /\ again.r = r

\* signHash returned s = 1 for a signature that held s = n - 1.
C12_HighSNormalized ==
  \E t \in CallIds : \E r \in ProbeR :
    /\ calls[t].op = "signHash" /\ calls[t].pc = "done"
    /\ calls[t].last.ret =
         TxOk(SignReply(DerSig(MinInt(r), MinInt(BigSub(CurveOrder, BigOne)))))
    /\ calls[t].res.success
    /\ calls[t].res.data.s = ToHex(BigOne)

\* --- C13
\* The value bytes of an INTEGER's content: the content without its leading
\* zero bytes; and a value of up to 32 bytes as 32 bytes.
StripZeros(c) ==
  LET nz == {i \in 1..Len(c) : c[i] # 0} IN
  IF nz = {} THEN <<>> ELSE SubSeq(c, SetMin(nz), Len(c))
Pad32(v) == Fill(32 - Len(v), 0) \o v

\* The INTEGER contents (r, s) of the signatures the token answers with.
SignPairs ==
  {<<MinInt(r), MinInt(s)>> : r \in ProbeR, s \in ProbeS}
    \cup {<<w, MinInt(BigOne)>> : w \in WideInts}
    \cup {<<MinInt(Fill(32, 17)), w>> : w \in WideInts}

\* C13: a signature signHash returns with success has r and s of 32 bytes
\* each that are the values of the two INTEGERs, s in low-S form: no value
\* byte of an INTEGER is dropped.
C13_ExactIntegers ==
  \A t \in CallIds : \A p \in SignPairs :
    (/\ calls[t].op = "signHash" /\ calls[t].pc = "done"
     /\ calls[t].last.ret = TxOk(SignReply(DerSig(p[1], p[2])))
     /\ calls[t].res.success) =>
      LET r2 == FromHex(calls[t].res.data.r)
          s2 == FromHex(calls[t].res.data.s)
          rv == StripZeros(p[1])
          sv == StripZeros(p[2])
      IN /\ Len(r2) = 32 /\ Len(s2) = 32
         /\ Len(rv) <= 32 /\ r2 = Pad32(rv)
         /\ Len(sv) <= 32
         /\ s2 = Pad32(sv) \/ SumIs(s2, Pad32(sv), CurveOrder)

\* --- C15
\* A sign response body 7C [len] 82 [len] 30 [len] 02 [len] r 02 [len] s,
\* all lengths in the short form, holds fewer bytes than the length of the
\* 82 value, of INTEGER r or of INTEGER s declares.
ShortOfDeclared(body) ==
  LET sig == SubSeq(body, 5, Len(body))
      rLen == At(sig, 3)
      sLen == At(sig, 5 + rLen)
  IN \/ Len(sig) < At(body, 3)
     \/ rLen # Undef /\ Len(sig) < 4 + rLen
     \/ rLen # Undef /\ sLen # Undef /\ Len(sig) < 6 + rLen + sLen

\* C15: a sign response that is shorter than its declared field lengths
\* makes signHash return the parse failure, never a signature.
C15_ShortSignResponse ==
  \A t \in CallIds :
    LET d == calls[t].last.ret.data IN
    (/\ calls[t].op = "signHash" /\ calls[t].pc = "done"
     /\ calls[t].last.ret.success /\ Len(d) >= 2 /\ SliceLast2(d) = SW_OK
     /\ ShortOfDeclared(SliceDrop2(d))) =>
      calls[t].res = Fail("Failed to parse signature from response", <<>>)

\* A response cut inside INTEGER r was refused.
C15_CutInR ==
  \E t \in CallIds :
    /\ calls[t].op = "signHash" /\ calls[t].pc = "done"
    /\ calls[t].last.ret.success
    /\ calls[t].last.ret.data =
         CutReply(DerSig(MinInt(Fill(32, 17)), MinInt(Fill(32, 34))), 40)
    /\ calls[t].res = Fail("Failed to parse signature from response", <<>>)

\* --- C14
\* C14: a key the certificate parser returns has x and y of 32 bytes each
\* and a point of 65 bytes beginning 04; a blob that ends before the 64
\* coordinate bytes after a BIT STRING header (03 42, 03 81 42, 03 82 00 42),
\* with or without the OID before it, gives the parse failure.
C14_NoShortPoint ==
  \A t \in CallIds :
    (calls[t].op = "readPublicKeyFromSlot" /\ calls[t].pc = "done") =>
      /\ calls[t].res.success =>
           /\ Len(calls[t].res.data.x) = 64 /\ Len(calls[t].res.data.y) = 64
           /\ Len(calls[t].res.data.publicKeyHex) = 130
           /\ SubSeq(calls[t].res.data.publicKeyHex, 1, 2) = <<0, 4>>
      /\ \A pre \in BlobPrefixes : \A hdr \in BitStringHeaders : \A k \in 1..MaxCut :
           calls[t].last.ret = TxOk(CutBlob(CertBlob(pre, hdr, Point(1)), k) \o SW_OK) =>
             calls[t].res = Fail("Failed to parse public key from response", <<>>)

\* A blob with the short-form header that lacks its last byte was refused.
C14_ShortFormRefused ==
  \E t \in CallIds : \E pre \in BlobPrefixes :
    /\ calls[t].op = "readPublicKeyFromSlot" /\ calls[t].pc = "done"
    /\ calls[t].last.ret = TxOk(CutBlob(CertBlob(pre, <<3, 66>>, Point(1)), 1) \o SW_OK)
    /\ calls[t].res = Fail("Failed to parse public key from response", <<>>)

\* --- C16
\* C16: for a 65-byte point 04 || x || y, the certificate parser applied to
\* buildSubjectPublicKeyInfo(point) finds the key by its primary strategy
\* and returns x and y as they were.
C16_RoundTrip ==
  \A t \in CallIds : \A p \in ProbePoints :
    LET spki == buildSubjectPublicKeyInfo(KeyOfPoint(p)) IN
    (/\ calls[t].op = "readPublicKeyFromSlot" /\ calls[t].pc = "done"
     /\ calls[t].last.ret = TxOk(spki \o SW_OK)) =>
      /\ calls[t].res.success
      /\ calls[t].res.data.x = ToHex(SubSeq(p, 2, 33))
      /\ calls[t].res.data.y = ToHex(SubSeq(p, 34, 65))
      /\ calls[t].res.data.publicKeyHex = ToHex(p)
      /\ primaryScan(spki).ok /\ primaryScan(spki).key = calls[t].res.data

\* The point whose x begins with a BIT STRING header came back whole.
C16_HeaderInsideKey ==
  \E t \in CallIds :
    /\ calls[t].op = "readPublicKeyFromSlot" /\ calls[t].pc = "done"
    /\ calls[t].last.ret =
         TxOk(buildSubjectPublicKeyInfo(KeyOfPoint(<<4, 3, 66, 0, 4>> \o Fill(60, 0))) \o SW_OK)
    /\ calls[t].res.success
    /\ calls[t].res.data.publicKeyHex = ToHex(<<4, 3, 66, 0, 4>> \o Fill(60, 0))

\* --- C17
\* The body is a 7F49 template whose first element is tag 86 with a declared
\* length of 65 and a value of 65 bytes, all present, beginning 04.
WellFormedKeyBody(body) ==
  /\ At(body, 0) = 127 /\ At(body, 1) = 73
  /\ parseLengthBytes(body, 2) # Throw
  /\ LET o == 2 + parseLengthBytes(body, 2)
         vstart == o + 1 + parseLengthBytes(body, o + 1)
     IN /\ At(body, o) = 134
        /\ parseLengthBytes(body, o + 1) # Throw
        /\ parseLength(body, o + 1) = 65
        /\ Len(body) >= vstart + 65
        /\ At(body, vstart) = 4

\* generateResult of a generateP256Key call whose GENERATE transmit returned.
GenerateResult(c) == IF c.pc = "done" /\ ~c.res.success THEN c.res ELSE c.gen

\* C17: key generation returns a key only when the GENERATE response ends
\* 90 00 and its body is well formed; any other body under 90 00 gives the
\* parse failure; any other status word a failure that carries it.
C17_GenerateParsed ==
  \A t \in CallIds :
    LET c == calls[t]
        d == c.last.ret.data
    IN (/\ c.op = "generateP256Key" /\ c.last.step = "generate"
        /\ c.last.ret.success /\ Len(d) >= 2) =>
         LET sw == SliceLast2(d)
             body == SliceDrop2(d)
         IN /\ (sw = SW_OK /\ WellFormedKeyBody(body)) => GenerateResult(c).success
            /\ (sw = SW_OK /\ ~WellFormedKeyBody(body)) =>
                 GenerateResult(c) = Fail("Failed to parse generated public key", <<>>)
            /\ sw # SW_OK =>
                 GenerateResult(c) = Fail("Key generation failed: SW=", ToHex(sw))

\* A GENERATE response whose first byte of the value is not 04 was refused.
C17_NotUncompressed ==
  \E t \in CallIds :
    /\ calls[t].op = "generateP256Key" /\ calls[t].pc = "done"
    /\ calls[t].last.step = "generate" /\ calls[t].last.ret.success
    /\ At(calls[t].last.ret.data, 5) = 5
    /\ calls[t].res = Fail("Failed to parse generated public key", <<>>)

\* --- C18
\* C18: connect() invoked while the manager is connected returns success
\* with the name of the reader held, makes no context, closes nothing, hands
\* nothing to a reader and leaves the reader, the protocol and the flags as
\* they were.
C18_ConnectIdempotent ==
  [][\A t \in CallIds :
       (Invoked(t, "connect") /\ isConnected /\ reader # 0) =>
         /\ calls'[t].pc = "done" /\ ~calls'[t].threw
         /\ calls'[t].res = Ok([readerName |-> reader, atr |-> ""])
         /\ calls'[t].sent = {}
         /\ UNCHANGED <<pcsc, reader, protocol, isConnected, connectPromiseResolved,
                        ctxs, rds, token>>]_vars

\* A connect() answered by the shortcut on an established session.
C18_SecondConnect ==
  \E t \in CallIds :
    /\ calls[t].op = "connect" /\ calls[t].pc = "done" /\ calls[t].att = 0
    /\ calls[t].res = Ok([readerName |-> reader, atr |-> ""])
    /\ isConnected /\ reader # 0 /\ protocol # 0 /\ rds[reader].card

\* --- C19
\* C19: once the timeout of a connection attempt has reported that no
\* YubiKey was found, and until connect() is called again, no callback of
\* a reader of that attempt makes the manager connected.
C19_StaysDisconnected ==
  [][\A r \in ReaderIds :
       (/\ rds[r].pend /\ ~rds'[r].pend
        /\ rds[r].ctx # 0 /\ ctxs[rds[r].ctx].nf
        /\ pcsc = rds[r].ctx) => ~isConnected']_vars

\* --- C20
\* C20: disconnect() returns success from every state, whatever the close
\* calls do, and leaves no reader, no context and no protocol, the manager
\* disconnected.
C20_DisconnectSucceeds ==
  [][\A t \in CallIds :
       Invoked(t, "disconnect") =>
         /\ calls'[t].pc = "done" /\ calls'[t].res = Ok(NoData)
         /\ reader' = 0 /\ pcsc' = 0 /\ protocol' = 0
         /\ ~isConnected' /\ ~connectPromiseResolved']_vars

\* A disconnect() on a manager that holds nothing returned success.
C20_Redundant ==
  \E t \in CallIds :
    /\ calls[t].op = "disconnect" /\ calls[t].pc = "done"
    /\ calls[t].res = Ok(NoData)
    /\ \A a \in CtxIds : ctxs[a].st = "none"

\* --- C21
\* connect() returns success in this step.
ConnectSucceeds(t) ==
  /\ calls[t].pc # "done" /\ calls'[t].pc = "done"
  /\ calls'[t].op = "connect" /\ calls'[t].res.success

\* C21: whenever connect() reports success, by a new card connection or by
\* the already-connected shortcut, SELECT PIV has been answered 90 00 on the
\* card connection of the reader the manager holds at that moment.
C21_SelectedOnSuccess ==
  [][\A t \in CallIds :
       ConnectSucceeds(t) => (reader' # 0 /\ rds'[reader'].piv)]_vars

\* connect() returned success for a card connection it made, on which
\* SELECT PIV was answered 90 00.
C21_SelectedSession ==
  \E t \in CallIds :
    /\ calls[t].op = "connect" /\ calls[t].pc = "done" /\ calls[t].att # 0
    /\ calls[t].res.success /\ reader # 0 /\ rds[reader].piv

\* The shortcut returned success on a reader whose SELECT PIV was not
\* answered 90 00, no second reader having appeared.
C21_ShortcutUnselected ==
  \E t \in CallIds :
    /\ calls[t].op = "connect" /\ calls[t].pc = "done" /\ calls[t].att = 0
    /\ calls[t].res.success /\ reader # 0 /\ ~rds[reader].piv
    /\ \A r \in ReaderIds : r # reader => rds[r].st = "none"

\* --- C22
\* generateP256Key in slot t has released the device and not yet called
\* connect() again; it is in the connect() of reconnectAfterYkman.
Released(c) == c.op = "generateP256Key" /\ c.pc \in {"ykman", "timer"}
Reconnecting(c) == c.op = "generateP256Key" /\ c.pc = "connect"

\* The call in slot t runs disconnectForYkman in this step.
HandOffStarts(t) ==
  /\ calls[t].op = "generateP256Key" /\ calls[t].pc = "raw"
  /\ Released(calls'[t]) \/ calls'[t].threw

\* C22: the hand-off to the external tool never starts while a raw exchange
\* of any operation is outstanding; from the release until the reconnect
\* has completed no operation starts an exchange, and until the reconnect
\* begins the manager holds no reader and no context.
C22_ExclusiveHandOff ==
  [][\A t \in CallIds :
       /\ HandOffStarts(t) =>
            /\ \A u \in CallIds \ {t} : calls[u].pc # "raw"
            /\ \A r \in ReaderIds : rds[r].sel.rd = 0
       /\ (Released(calls[t]) \/ Reconnecting(calls[t])) =>
            \A u \in CallIds : ~StartsExchange(u)
       /\ Released(calls[t]) => (reader = 0 /\ pcsc = 0)]_vars

\* The external tool has run and the reconnect of the hand-off is under way.
C22_HandOffDone ==
  \E t \in CallIds : Reconnecting(calls[t]) /\ token.cert # 0

\* --- C23
\* generateP256Key in slot t completes in this step.
Completes(t, op) ==
  calls[t].op = op /\ calls[t].pc # "done" /\ calls'[t].pc = "done"

\* C23: every release of the device for the external tool is followed by
\* the reconnect before generateP256Key completes: the call never completes
\* in the step that releases the device, nor while the external tool runs;
\* after a release it completes only from the connect() of the reconnect.
C23_ReacquireOnAllPaths ==
  [][\A t \in CallIds :
       Completes(t, "generateP256Key") =>
         (~HandOffStarts(t) /\ calls[t].pc # "ykman")]_vars

\* The certificate store failed before the tool was started and the
\* reconnect is under way.
C23_ReconnectAfterFailure ==
  \E t \in CallIds : Reconnecting(calls[t]) /\ token.key # 0 /\ token.cert = 0

\* --- C24
\* C24: every public operation completes with a result object, whatever the
\* card, the transport, the file system and the external tool do; no call
\* ends with its promise rejected.
C24_NothingThrows ==
  \A t \in CallIds : calls[t].pc = "done" => ~calls[t].threw

\* A call completed with a failure result after a raw response of fewer
\* than two bytes.
C24_ShortRawHandled ==
  \E t \in CallIds :
    /\ calls[t].pc = "done" /\ ~calls[t].threw /\ ~calls[t].res.success
    /\ calls[t].last.raws # <<>>
    /\ Len(calls[t].last.raws[Len(calls[t].last.raws)]) < 2

\* --- C25
\* The reader the manager holds has no card connection, and a reader of the
\* same context has been removed: what is left of the session (the flag,
\* the protocol) stems from the removed reader.
StaleSession ==
  /\ reader # 0 /\ ~rds[reader].card /\ isConnected /\ protocol # 0
  /\ \E r \in ReaderIds : rds[r].st = "ended" /\ rds[r].ctx = rds[reader].ctx

\* C25: the session is destroyed on reader removal: after the 'end' event
\* the manager does not pass its own connected test, a later connect()
\* does not take the already-connected shortcut on what the removed reader
\* left behind, and no exchange is started with it.
C25_DestroyedOnRemoval ==
  [][/\ \A r \in ReaderIds :
          (rds[r].st # "ended" /\ rds'[r].st = "ended") => ~alreadyConnected'
     /\ \A t \in CallIds :
          (Invoked(t, "connect") /\ alreadyConnected) => ~StaleSession
     /\ \A t \in CallIds : StartsExchange(t) => ~StaleSession]_vars

\* After a removal, a call was refused as not connected.
C25_RefusedAfterRemoval ==
  \E t \in CallIds :
    /\ calls[t].pc = "done" /\ calls[t].res = Fail(NotConnectedMsg, <<>>)
    /\ reader = 0 /\ \E r \in ReaderIds : rds[r].st = "ended"

\* --- C26
\* C26: at most one PC/SC context made by the manager is open at a time.
C26_OneContext ==
  Cardinality({a \in CtxIds : ctxs[a].st = "open"}) <= 1

\* A second context is open and the first one has been closed.
C26_SecondContext ==
  /\ pcsc = 2 /\ ctxs[2].st = "open" /\ ctxs[1].st = "closed"

\* --- C27
\* The two strategies as the specification states them, on a blob as a
\* sequence of bytes (positions from 1). A header hdr matches at i when its
\* bytes, the unused-bits byte 00 and the point tag 04 stand at i and the 64
\* coordinate bytes after them are all in the blob.
MatchAt(blob, i, hdr) ==
  /\ i + Len(hdr) + 65 <= Len(blob)
  /\ SubSeq(blob, i, i + Len(hdr) + 1) = hdr \o <<0, 4>>

CoordsAt(blob, i, hdr) == SubSeq(blob, i + Len(hdr) + 2, i + Len(hdr) + 65)

OidAt(blob, i) ==
  i + 8 <= Len(blob) /\ SubSeq(blob, i, i + 8) = <<6, 7, 42, 134, 72, 206, 61, 2, 1>>

\* The first match of one of the headers at or after position from: the
\* coordinates after it, or <<>> when there is none.
FirstMatch(blob, from, hdrs) ==
  LET found == {i \in from..Len(blob) : \E hdr \in hdrs : MatchAt(blob, i, hdr)}
  IN IF found = {} THEN <<>>
     ELSE LET i == CHOOSE m \in found : \A k \in found : m <= k
              hdr == CHOOSE h \in hdrs : MatchAt(blob, i, h)
          IN CoordsAt(blob, i, hdr)

PrimaryCoords(blob) ==
  LET oids == {i \in 1..Len(blob) : OidAt(blob, i)}
  IN IF oids = {} THEN <<>>
     ELSE FirstMatch(blob, (CHOOSE m \in oids : \A k \in oids : m <= k) + 9,
                     {<<3, 66>>, <<3, 129, 66>>, <<3, 130, 0, 66>>})

FallbackCoords(blob) == FirstMatch(blob, 1, {<<3, 66>>, <<3, 129, 66>>})

ExpectedKey(blob) ==
  LET xy == IF PrimaryCoords(blob) # <<>> THEN PrimaryCoords(blob) ELSE FallbackCoords(blob)
  IN IF xy = <<>> THEN Fail("Failed to parse public key from response", <<>>)
     ELSE Ok([publicKeyHex |-> ToHex(<<4>> \o xy),
              x |-> ToHex(SubSeq(xy, 1, 32)), y |-> ToHex(SubSeq(xy, 33, 64))])

\* The certificate blob a finished read was answered with, before 90 00.
ReadBlob(c) == SubSeq(c.last.ret.data, 1, Len(c.last.ret.data) - 2)

ReadAnswered(c) ==
  /\ c.op = "readPublicKeyFromSlot" /\ c.pc = "done"
  /\ c.last.step = "getdata" /\ c.last.ret.success
  /\ Len(c.last.ret.data) >= 2
  /\ SubSeq(c.last.ret.data, Len(c.last.ret.data) - 1, Len(c.last.ret.data)) = <<144, 0>>

\* C27: the certificate parser returns the 64 bytes after the header the
\* primary strategy matches, else the 64 bytes after the header the fallback
\* scan matches, and the parse failure exactly when neither matches.
C27_ParserStrategies ==
  \A t \in CallIds :
    ReadAnswered(calls[t]) => calls[t].res = ExpectedKey(ReadBlob(calls[t]))

\* A read returned the key after the OID although a complete fallback
\* pattern with another point stands before it.
C27_PrimaryPreferred ==
  \E t \in CallIds :
    /\ ReadAnswered(calls[t])
    /\ FallbackCoords(ReadBlob(calls[t])) = SubSeq(Point(2), 2, 65)
    /\ calls[t].res.success
    /\ calls[t].res.data.publicKeyHex = ToHex(Point(1))

\* --- C28
\* The string without a leading "0x".
Unprefixed(str) ==
  IF Len(str) >= 2 /\ str[1] = 48 /\ str[2] = 120 THEN SubSeq(str, 3, Len(str)) ELSE str

\* word is str put at the right of 64 characters, zeros before it.
LeftPadded(word, str) ==
  /\ Len(word) = 64 /\ Len(str) <= 64
  /\ SubSeq(word, 64 - Len(str) + 1, 64) = str
  /\ \A i \in 1..(64 - Len(str)) : word[i] = 48

ZeroPadded(str) == [i \in 1..64 |-> IF i <= 64 - Len(str) THEN 48 ELSE str[i - (64 - Len(str))]]

\* The k-th 32-byte word of the signature string sig, v taken as standing
\* between the second and the third.
SigWord(sig, k) ==
  LET at == IF k <= 2 THEN 2 + 64 * (k - 1) ELSE 4 + 64 * (k - 1)
  IN SubSeq(sig, at + 1, at + 64)

\* C28: formatSafeSignature(r, s, x, y), for hex strings of at most 32
\* bytes with or without a 0x prefix, returns 193 bytes: the owner address
\* left-padded to 32 bytes, the offset 0x41 as 32 bytes, the byte 02, then
\* r, s, x and y each left-padded to 32 bytes; the owner address is
\* deriveAddress(x, y), and deriveAddress(x, y) is the last 20 bytes of the
\* hash of the padded x followed by the padded y.
C28_SignatureLayout ==
  \A t \in CallIds :
    /\ (calls[t].op = "formatSafeSignature" /\ calls[t].pc = "done") =>
         LET r == calls[t].arg[1]
             s == calls[t].arg[2]
             x == calls[t].arg[3]
             y == calls[t].arg[4]
             sig == calls[t].res.data
         IN /\ Len(sig) = 2 + 2 * 193
            /\ SubSeq(sig, 1, 2) = <<48, 120>>
            /\ LeftPadded(SigWord(sig, 1),
                          toLowerCase(SubSeq(deriveAddress(x, y), 3, 42)))
            /\ Len(deriveAddress(x, y)) = 42
            /\ LeftPadded(SigWord(sig, 2), <<52, 49>>)
            /\ SubSeq(sig, 131, 132) = <<48, 50>>
            /\ LeftPadded(SigWord(sig, 3), Unprefixed(r))
            /\ LeftPadded(SigWord(sig, 4), Unprefixed(s))
            /\ LeftPadded(SigWord(sig, 5), Unprefixed(x))
            /\ LeftPadded(SigWord(sig, 6), Unprefixed(y))
    /\ (calls[t].op = "deriveAddress" /\ calls[t].pc = "done") =>
         LET xw == ZeroPadded(Unprefixed(calls[t].arg[1]))
             yw == ZeroPadded(Unprefixed(calls[t].arg[2]))
         IN /\ calls[t].res.data = deriveAddress(calls[t].arg[1], calls[t].arg[2])
            /\ toLowerCase(calls[t].res.data) =
                 <<48, 120>> \o SubSeq(keccak256(<<48, 120>> \o xw \o yw), 27, 66)

\* A signature was formatted from a short x with a 0x prefix and an empty y.
C28_ShortPrefixed ==
  \E t \in CallIds :
    /\ calls[t].op = "formatSafeSignature" /\ calls[t].pc = "done"
    /\ calls[t].arg[3] = <<48, 120, 49, 102>> /\ calls[t].arg[4] = <<>>
    /\ Len(calls[t].res.data) = 388

\* --- C29
\* The transmit call of the witness request returns to the call in slot t.
WitnessReturns(t) ==
  /\ calls[t].step = "witness" /\ calls[t].pc = "raw"
  /\ calls'[t].last.step = "witness" /\ calls[t].last.step # "witness"

\* What transmit returned carries status 90 00 and, under tag 80, a witness
\* of exactly 16 bytes.
GoodWitness(ret) ==
  /\ ret.success
  /\ Len(ret.data) >= 2
  /\ SubSeq(ret.data, Len(ret.data) - 1, Len(ret.data)) = <<144, 0>>
  /\ parseTlvValue(SubSeq(ret.data, 1, Len(ret.data) - 2), 128).ok
  /\ Len(parseTlvValue(SubSeq(ret.data, 1, Len(ret.data) - 2), 128).val) = 16

\* The commands of the handshake and of what follows it.
HandshakeSteps == {"witness", "auth", "generate"}

\* C29: the handshake hands 00 87 0A 9B 04 7C 02 80 00 to the reader first;
\* it hands 00 87 0A 9B 26 7C 24 80 10 [decrypted witness] 81 10 [challenge]
\* to the reader only in the step in which the witness request returned
\* status 90 00 with a 16-byte witness under tag 80; when the witness request
\* returns anything else the call ends in failure, the witness request being
\* the only command the handshake transmitted.
C29_TwoStepChain ==
  [][\A t \in CallIds :
       /\ Transmits(t, "witness") =>
            /\ calls'[t].x.cmd = <<0, 135, 10, 155, 4, 124, 2, 128, 0>>
            /\ "auth" \notin calls[t].sent
       /\ Transmits(t, "auth") =>
            /\ WitnessReturns(t)
            /\ GoodWitness(calls'[t].last.ret)
            /\ Len(calls'[t].x.cmd) = 43
            /\ calls'[t].x.cmd =
                 <<0, 135, 10, 155, 38, 124, 36, 128, 16>>
                   \o aesDecrypt(mgmtKey,
                        parseTlvValue(SubSeq(calls'[t].last.ret.data, 1,
                                             Len(calls'[t].last.ret.data) - 2), 128).val)
                   \o <<129, 16>> \o calls'[t].chal
            /\ Len(calls'[t].chal) = 16
       /\ (WitnessReturns(t) /\ ~GoodWitness(calls'[t].last.ret)) =>
            /\ calls'[t].pc = "done"
            /\ ~calls'[t].res.success
            /\ calls'[t].sent \cap HandshakeSteps = {"witness"}]_vars

\* A call ended after the witness request returned 90 00 with a witness of
\* 8 bytes, the response command never handed to the reader.
C29_ShortWitnessEnds ==
  \E t \in CallIds :
    /\ calls[t].pc = "done" /\ calls[t].last.step = "witness"
    /\ calls[t].last.ret.success
    /\ calls[t].last.ret.data = <<124, 10, 128, 8>> \o ShortWitness \o <<144, 0>>
    /\ "auth" \notin calls[t].sent

\* The response command was handed to the reader.
C29_ResponseSent ==
  \E t \in CallIds : calls[t].step = "auth" /\ calls[t].pc = "raw"

\* --- C30
\* C30: whatever the PIN string, of no character, of 8, or of more than 8,
\* the VERIFY command handed to the reader has exactly 13 bytes:
\* 00 20 00 80 08, then 8 bytes holding the bytes of the PIN from its start
\* and 0xFF in every position the PIN does not reach.
C30_VerifyCommand ==
  [][\A t \in CallIds :
       Transmits(t, "verify") =>
         LET cmd == calls'[t].x.cmd
             pin == calls'[t].arg
         IN /\ Len(cmd) = 13
            /\ SubSeq(cmd, 1, 5) = <<0, 32, 0, 128, 8>>
            /\ \A i \in 1..8 :
                 cmd[5 + i] = IF i <= Len(pin) THEN pin[i] % 256 ELSE 255]_vars

\* A VERIFY command is with the reader for a PIN of more than 8 characters.
C30_LongPinSent ==
  \E t \in CallIds :
    /\ calls[t].op = "verifyPin" /\ calls[t].pc = "raw" /\ calls[t].step = "verify"
    /\ Len(calls[t].arg) > 8

\* A VERIFY command is with the reader for the empty PIN.
C30_EmptyPinSent ==
  \E t \in CallIds :
    /\ calls[t].op = "verifyPin" /\ calls[t].pc = "raw" /\ calls[t].step = "verify"
    /\ calls[t].arg = <<>>

\* --- C32
\* C32: while the connected flag is set, the manager holds a reader and a
\* protocol, and the reader it holds is one whose card connection stands.
C32_ConnectedHoldsSession ==
  isConnected => (reader # 0 /\ protocol # 0 /\ rds[reader].card)

\* The connected flag is set and the reader held has been removed.
C32_FlagWithoutReader == isConnected /\ reader = 0

\* --- C33
\* connect() returns a failure in this step.
ConnectFails(t) ==
  /\ calls[t].pc # "done" /\ calls'[t].pc = "done"
  /\ calls'[t].op = "connect" /\ ~calls'[t].res.success

\* C33: whenever connect() returns a failure, the connected flag is false at
\* that moment.
C33_FailureNotConnected ==
  [][\A t \in CallIds : ConnectFails(t) => ~isConnected']_vars

\* --- C34
\* The state disconnect() and disconnectForYkman leave: nothing held, the
\* flags clear.
Disconnected ==
  /\ pcsc = 0 /\ reader = 0 /\ protocol = 0
  /\ ~isConnected /\ ~connectPromiseResolved

\* connect() is called in this step, by the IPC handler or by
\* reconnectAfterYkman.
ConnectCalled ==
  \E t \in CallIds :
    \/ Invoked(t, "connect")
    \/ calls[t].pc = "timer" /\ calls'[t].pc # "timer"

\* C34: once disconnect() or the hand-off release has left the manager
\* disconnected, no step other than a call of connect() gives it a reader,
\* a protocol or the connected flag.
C34_NoLateCallback ==
  [][(Disconnected /\ ~ConnectCalled) =>
       (reader' = 0 /\ protocol' = 0 /\ ~isConnected')]_vars

\* --- C31
\* C31: under fair delivery of timers and callbacks, every call waiting on
\* a connection attempt, connect() itself or generateP256Key in the
\* reconnect of its hand-off, eventually has its outcome.
C31_ConnectReturns ==
  \A t \in CallIds : (calls[t].pc = "connect") ~> (calls[t].pc = "done")

\* A call waits on an attempt whose timer has gone by with a reader
\* detected and no card connection begun.
C31_WaitsWithoutTimer ==
  \E t \in CallIds :
    /\ calls[t].pc = "connect"
    /\ ~ctxs[calls[t].att].timer /\ ~ctxs[calls[t].att].settled
    /\ reader # 0 /\ ~rds[reader].pend /\ rds[reader].sel.rd = 0


\* C35: in every state of the wizard the data the step on screen
\* dereferences is present: deploySafe has ownerAddress; createTx has
\* safeAddress and ownerAddress; sign has safeTxHash, publicKey and
\* ownerAddress; execute has safeAddress, transaction and signature.
C35_StepDataPresent ==
  LET s == app.state IN
  /\ s.currentStep = "deploySafe" => s.ownerAddress # 0
  /\ s.currentStep = "createTx" => (s.safeAddress # 0 /\ s.ownerAddress # 0)
  /\ s.currentStep = "sign" =>
       (s.safeTxHash # NoHash /\ s.publicKey # 0 /\ s.ownerAddress # 0)
  /\ s.currentStep = "execute" =>
       (s.safeAddress # 0 /\ s.transaction # 0 /\ s.signature # NoSafeSignature)

\* C36: at the execute step the stored signature is the one made over the
\* stored safeTxHash, which is the hash of the stored transaction, with the
\* stored public key.
C36_SignatureOfStoredTransaction ==
  LET s == app.state IN
  s.currentStep = "execute" =>
    /\ s.signature.hash = s.safeTxHash
    /\ s.safeTxHash = calculateSafeTxHash(s.safeAddress, s.transaction)
    /\ s.signature.key = s.publicKey

\* C37: once no save is under way, relayerStatus.configured is true exactly
\* when the EvmConnector holds a private key, and after the key was cleared
\* no deploySafe or executeTransaction submits anything.
C37_StatusAgreesWithKey ==
  /\ (~relay.loading /\ relay.flying = {}) =>
       (relay.status.configured <=> relay.privateKey # 0)
  /\ relay.cleared => relay.last # "submitted"
====
